---- MODULE Spec2Model ----
(***************************************************************************)
(* State-machine model of the DB-API layer of elasticsearch-dbapi:         *)
(* es/baseapi.py (BaseConnection, BaseCursor and the result typer) with    *)
(* the elastic and opendistro cursors built on it, the reflection methods  *)
(* of the dialects, the opendistro Connection and the legacy binder.  The  *)
(* parameter binder (apply_parameters, escape) and the result typer are    *)
(* also modelled as functions called on their own.                         *)
(*                                                                         *)
(* Python values are encoded as follows.  A str is the sequence of its     *)
(* characters; a list or tuple is a sequence; an int is an integer; an     *)
(* Optional value is None (the empty sequence) or Some(v) (the sequence    *)
(* holding v alone); an exception is the name of its class.                *)
(***************************************************************************)
EXTENDS Integers, Sequences, FiniteSets, TLC

\* The state: one connection with the cursors it has produced.

VARIABLES
    conn,   \* the Connection: its class, its v2 keyword argument, closed, cursors
    hist,   \* per cursor, what has been executed and fetched on it (history)
    last    \* the call made last: its outcome

vars == <<conn, hist, last>>

\* Bounds of the model.
MaxCursors == 2
MaxRows == 2
\* The most elements of a list given to escape, and the most columns of a
\* response given to get_description_from_columns
MaxElements == 2
MaxColumns == 2
\* The most characters of a str given to escape
MaxChars == 3
\* The leading characters of a type name that are given in either case
MaxCased == 4
\* The most fields of a mapping, and the most multi-fields of a field
MaxFields == 2


----------------------------------------------------------------------------
\* Python values

None == <<>>
Some(v) == <<v>>
IsNone(o) == Len(o) = 0
Val(o) == o[1]

Min(a, b) == IF a <= b THEN a ELSE b
Max(a, b) == IF a >= b THEN a ELSE b

\* The index at which the Python slices s[:k] and s[k:] cut s.
SliceAt(s, k) == IF k >= 0 THEN Min(k, Len(s)) ELSE Max(Len(s) + k, 0)
\* s[:k]
SliceTo(s, k) == SubSeq(s, 1, SliceAt(s, k))
\* s[k:]
SliceFrom(s, k) == SubSeq(s, SliceAt(s, k) + 1, Len(s))

\* str.lower() on the ASCII letters
UpperChars == <<"A", "B", "C", "D", "E", "F", "G", "H", "I", "J", "K", "L", "M",
                "N", "O", "P", "Q", "R", "S", "T", "U", "V", "W", "X", "Y", "Z">>
LowerChars == <<"a", "b", "c", "d", "e", "f", "g", "h", "i", "j", "k", "l", "m",
                "n", "o", "p", "q", "r", "s", "t", "u", "v", "w", "x", "y", "z">>
LowerOf ==
    [ch \in {UpperChars[i] : i \in 1..Len(UpperChars)} |->
        LowerChars[CHOOSE i \in 1..Len(UpperChars) : UpperChars[i] = ch]]
LowerChar(ch) == IF ch \in DOMAIN LowerOf THEN LowerOf[ch] ELSE ch
Lower(s) == [i \in 1..Len(s) |-> LowerChar(s[i])]

\* s.startswith(p)
StartsWith(s, p) == Len(s) >= Len(p) /\ SubSeq(s, 1, Len(p)) = p

\* s.replace(old, new), old not empty: leftmost non-overlapping occurrences
RECURSIVE Replace(_, _, _)
Replace(s, old, new) ==
    IF Len(s) = 0 THEN s
    ELSE IF StartsWith(s, old)
         THEN new \o Replace(SubSeq(s, Len(old) + 1, Len(s)), old, new)
         ELSE <<s[1]>> \o Replace(Tail(s), old, new)

----------------------------------------------------------------------------
\* es/exceptions.py: the class each exception class derives from.  Exceptions
\* of the elasticsearch client and of Python itself have no parent here.

NoExc == "ok"

ExceptionParent ==
    [Error |-> "Exception", InterfaceError |-> "Error", DatabaseError |-> "Error",
     InternalError |-> "DatabaseError", OperationalError |-> "DatabaseError",
     ProgrammingError |-> "DatabaseError", IntegrityError |-> "DatabaseError",
     DataError |-> "DatabaseError", NotSupportedError |-> "DatabaseError"]

RECURSIVE IsInstance(_, _)
IsInstance(exc, class) ==
    \/ exc = class
    \/ /\ exc \in DOMAIN ExceptionParent
       /\ IsInstance(ExceptionParent[exc], class)

----------------------------------------------------------------------------
\* The result typer

\* class Type
Type_STRING == 1
Type_NUMBER == 2
Type_BOOLEAN == 3
Type_DATETIME == 4

\* get_type's table: <<native type, type code>>, in source order
type_map ==
    <<
     <<<<"t", "e", "x", "t">>, Type_STRING>>,
     <<<<"k", "e", "y", "w", "o", "r", "d">>, Type_STRING>>,
     <<<<"i", "n", "t", "e", "g", "e", "r">>, Type_NUMBER>>,
     <<<<"h", "a", "l", "f", "_", "f", "l", "o", "a", "t">>, Type_NUMBER>>,
     <<<<"s", "c", "a", "l", "e", "d", "_", "f", "l", "o", "a", "t">>, Type_NUMBER>>,
     <<<<"g", "e", "o", "_", "p", "o", "i", "n", "t">>, Type_STRING>>,
     <<<<"n", "e", "s", "t", "e", "d">>, Type_STRING>>,
     <<<<"o", "b", "j", "e", "c", "t">>, Type_STRING>>,
     <<<<"d", "a", "t", "e">>, Type_DATETIME>>,
     <<<<"d", "a", "t", "e", "t", "i", "m", "e">>, Type_DATETIME>>,
     <<<<"t", "i", "m", "e", "s", "t", "a", "m", "p">>, Type_DATETIME>>,
     <<<<"s", "h", "o", "r", "t">>, Type_NUMBER>>,
     <<<<"l", "o", "n", "g">>, Type_NUMBER>>,
     <<<<"f", "l", "o", "a", "t">>, Type_NUMBER>>,
     <<<<"d", "o", "u", "b", "l", "e">>, Type_NUMBER>>,
     <<<<"b", "y", "t", "e", "s">>, Type_NUMBER>>,
     <<<<"b", "o", "o", "l", "e", "a", "n">>, Type_BOOLEAN>>,
     <<<<"i", "p">>, Type_STRING>>,
     <<<<"i", "n", "t", "e", "r", "v", "a", "l", "_", "m", "i", "n", "u", "t", "e", "_", "t", "o", "_", "s", "e", "c", "o", "n", "d">>,
       Type_STRING>>,
     <<<<"i", "n", "t", "e", "r", "v", "a", "l", "_", "h", "o", "u", "r", "_", "t", "o", "_", "s", "e", "c", "o", "n", "d">>,
       Type_STRING>>,
     <<<<"i", "n", "t", "e", "r", "v", "a", "l", "_", "h", "o", "u", "r", "_", "t", "o", "_", "m", "i", "n", "u", "t", "e">>,
       Type_STRING>>,
     <<<<"i", "n", "t", "e", "r", "v", "a", "l", "_", "d", "a", "y", "_", "t", "o", "_", "s", "e", "c", "o", "n", "d">>,
       Type_STRING>>,
     <<<<"i", "n", "t", "e", "r", "v", "a", "l", "_", "d", "a", "y", "_", "t", "o", "_", "m", "i", "n", "u", "t", "e">>,
       Type_STRING>>,
     <<<<"i", "n", "t", "e", "r", "v", "a", "l", "_", "d", "a", "y", "_", "t", "o", "_", "h", "o", "u", "r">>,
       Type_STRING>>,
     <<<<"i", "n", "t", "e", "r", "v", "a", "l", "_", "y", "e", "a", "r", "_", "t", "o", "_", "m", "o", "n", "t", "h">>,
       Type_STRING>>,
     <<<<"i", "n", "t", "e", "r", "v", "a", "l", "_", "s", "e", "c", "o", "n", "d">>,
       Type_STRING>>,
     <<<<"i", "n", "t", "e", "r", "v", "a", "l", "_", "m", "i", "n", "u", "t", "e">>,
       Type_STRING>>,
     <<<<"i", "n", "t", "e", "r", "v", "a", "l", "_", "d", "a", "y">>, Type_STRING>>,
     <<<<"i", "n", "t", "e", "r", "v", "a", "l", "_", "m", "o", "n", "t", "h">>,
       Type_STRING>>,
     <<<<"i", "n", "t", "e", "r", "v", "a", "l", "_", "y", "e", "a", "r">>,
       Type_STRING>>,
     <<<<"t", "i", "m", "e">>, Type_STRING>>
    >>

TypeKeys == {type_map[i][1] : i \in 1..Len(type_map)}

\* get_type without lower(): type_map[data_type]
get_type_as_spelled(data_type) ==
    LET key == Val(data_type)
    IN  IF IsNone(data_type) THEN [exc |-> "AttributeError", val |-> 0]
        ELSE IF key \notin TypeKeys THEN [exc |-> "KeyError", val |-> 0]
        ELSE [exc |-> NoExc,
              val |-> type_map[CHOOSE i \in 1..Len(type_map) : type_map[i][1] = key][2]]

\* get_type(data_type) = type_map[data_type.lower()]; a missing key raises KeyError
\* and a data_type of None has no lower(): AttributeError.
get_type(data_type) ==
    LET key == Lower(Val(data_type))
    IN  IF IsNone(data_type) THEN [exc |-> "AttributeError", val |-> 0]
        ELSE IF key \notin TypeKeys THEN [exc |-> "KeyError", val |-> 0]
        ELSE [exc |-> NoExc,
              val |-> type_map[CHOOSE i \in 1..Len(type_map) : type_map[i][1] = key][2]]

\* A column of a response: a dict read with get("name"), get("type"), get("alias").
Column(name, type, alias) == [name |-> name, type |-> type, alias |-> alias]

\* Python truth of an Optional str: not None and not empty
StrTruthy(o) == ~IsNone(o) /\ Len(Val(o)) > 0

\* The namedtuple CursorDescriptionRow: name is an Optional str, type a type code,
\* the sizes are None and null_ok is an Optional bool.
CursorDescriptionRow(name, type, display_size, internal_size, precision, scale, null_ok) ==
    <<name, type, display_size, internal_size, precision, scale, null_ok>>

\* One entry per column, in order; the first get_type that raises ends the
\* comprehension with its exception.
get_description_from_columns(columns) ==
    LET typed == [i \in 1..Len(columns) |-> get_type(columns[i].type)]
        failed == {i \in 1..Len(columns) : typed[i].exc # NoExc}
    IN  IF failed # {}
        THEN [exc |-> typed[CHOOSE i \in failed : \A j \in failed : i <= j].exc,
              val |-> <<>>]
        ELSE [exc |-> NoExc,
              val |-> [i \in 1..Len(columns) |->
                         CursorDescriptionRow(
                             IF ~StrTruthy(columns[i].alias) THEN columns[i].name
                                                             ELSE columns[i].alias,
                             typed[i].val, None, None, None, None, Some(TRUE))]]

----------------------------------------------------------------------------
\* BaseCursor: the cursor object and its methods.  A method is an operator
\* from the object (and its arguments) to an Outcome: the object afterwards,
\* the exception raised (NoExc when it returns), the value returned and the
\* requests made to the store.

Outcome(self, exc, ret, requests) ==
    [self |-> self, exc |-> exc, ret |-> ret, requests |-> requests]

Raise(self, exc) == Outcome(self, exc, None, <<>>)
Return(self, ret) == Outcome(self, NoExc, ret, <<>>)

\* BaseCursor.__init__ and the subclasses' __init__: the attributes the methods
\* below read.  _results is the list [] from the start.
\* class is the Cursor subclass; v2 is the attribute the opendistro Cursor reads
\* from the keyword arguments (the elastic Cursor has none: FALSE).
NewCursor(class, v2) ==
    [class |-> class, v2 |-> class = "opendistro" /\ v2,
     closed |-> FALSE, arraysize |-> 1, description |-> <<>>, _results |-> Some(<<>>)]

\* The guard of the decorator check_closed: it raises Error when it holds.
check_closed(self) == self.closed

\* The guard of the decorator check_result: it raises Error when it holds.
check_result(self) == IsNone(self._results)

\* BaseCursor.rowcount: @check_result outside @check_closed
rowcount(self) ==
    IF check_result(self) THEN Raise(self, "Error")
    ELSE IF check_closed(self) THEN Raise(self, "Error")
    ELSE IF Len(Val(self._results)) > 0
         THEN Return(self, <<Len(Val(self._results))>>)
         ELSE Return(self, <<0>>)

\* close without its @check_closed
close_unchecked(self) == Return([self EXCEPT !.closed = TRUE], None)

\* BaseCursor.close
close(self) ==
    IF check_closed(self) THEN Raise(self, "Error")
    ELSE Return([self EXCEPT !.closed = TRUE], None)

\* executemany that returns without raising
executemany_silent(self) ==
    IF check_closed(self) THEN Raise(self, "Error") ELSE Return(self, None)

\* BaseCursor.executemany
executemany(self) ==
    IF check_closed(self) THEN Raise(self, "Error")
    ELSE Raise(self, "NotSupportedError")

\* fetchone with self._results.pop() in place of self._results.pop(0)
fetchone_pop_last(self) ==
    IF check_result(self) THEN Raise(self, "Error")
    ELSE IF check_closed(self) THEN Raise(self, "Error")
    ELSE IF Len(Val(self._results)) = 0
         THEN Return(self, None)
         ELSE Return([self EXCEPT !._results =
                          Some(SliceTo(Val(self._results), Len(Val(self._results)) - 1))],
                     Some(Val(self._results)[Len(Val(self._results))]))

\* BaseCursor.fetchone: self._results.pop(0), or None on IndexError
fetchone(self) ==
    IF check_result(self) THEN Raise(self, "Error")
    ELSE IF check_closed(self) THEN Raise(self, "Error")
    ELSE IF Len(Val(self._results)) = 0
         THEN Return(self, None)
         ELSE Return([self EXCEPT !._results = Some(Tail(Val(self._results)))],
                     Some(Head(Val(self._results))))

\* size or self.arraysize, for an Optional int size
SizeOr(size, arraysize) ==
    IF IsNone(size) \/ Val(size) = 0 THEN arraysize ELSE Val(size)

\* fetchmany without its @check_closed
fetchmany_unchecked(self, size) ==
    Return([self EXCEPT !._results =
                Some(SliceFrom(Val(self._results), SizeOr(size, self.arraysize)))],
           SliceTo(Val(self._results), SizeOr(size, self.arraysize)))

\* BaseCursor.fetchmany
fetchmany(self, size) ==
    IF check_result(self) THEN Raise(self, "Error")
    ELSE IF check_closed(self) THEN Raise(self, "Error")
    ELSE Return([self EXCEPT !._results =
                     Some(SliceFrom(Val(self._results), SizeOr(size, self.arraysize)))],
                SliceTo(Val(self._results), SizeOr(size, self.arraysize)))

\* BaseCursor.__iter__
iter(self) ==
    IF check_closed(self) THEN Raise(self, "Error")
    ELSE Return(self, None)

\* __next__ that tests the buffer after the pop: it stops one row early
next_stop_early(self) ==
    LET output == fetchone(self)
    IN  IF check_closed(self) THEN Raise(self, "Error")
        ELSE IF output.exc # NoExc THEN output
        ELSE IF IsNone(output.ret) \/ Val(output.self._results) = <<>>
        THEN Raise(output.self, "StopIteration")
        ELSE Return(output.self, Val(output.ret))

\* BaseCursor.__next__
next(self) ==
    LET output == fetchone(self)
    IN  IF check_closed(self) THEN Raise(self, "Error")
        ELSE IF output.exc # NoExc THEN output
        ELSE IF IsNone(output.ret) THEN Raise(output.self, "StopIteration")
        ELSE Return(output.self, Val(output.ret))

\* list(self): __iter__ once, then __next__ until StopIteration; any other
\* exception ends the loop and is raised to the caller.
RECURSIVE ListLoop(_, _)
ListLoop(self, acc) ==
    LET item == next(self)
    IN  IF item.exc = "StopIteration" THEN Return(item.self, acc)
        ELSE IF item.exc # NoExc THEN Raise(item.self, item.exc)
        ELSE ListLoop(item.self, Append(acc, item.ret))

list(self) ==
    IF iter(self).exc # NoExc THEN iter(self) ELSE ListLoop(self, <<>>)

\* fetchall returning list(self._results) in place of list(self)
fetchall_copy(self) ==
    IF check_result(self) THEN Raise(self, "Error")
    ELSE IF check_closed(self) THEN Raise(self, "Error")
    ELSE Return(self, Val(self._results))

\* BaseCursor.fetchall
fetchall(self) ==
    IF check_result(self) THEN Raise(self, "Error")
    ELSE IF check_closed(self) THEN Raise(self, "Error")
    ELSE list(self)

----------------------------------------------------------------------------
\* Literal strings of the source

str_show_valid_tables ==
    <<"s", "h", "o", "w", " ", "v", "a", "l", "i", "d", "_", "t", "a", "b", "l", "e",
      "s">>
str_show_valid_views ==
    <<"s", "h", "o", "w", " ", "v", "a", "l", "i", "d", "_", "v", "i", "e", "w", "s">>
str_select_1 == <<"s", "e", "l", "e", "c", "t", " ", "1">>
str_SHOW_TABLES == <<"S", "H", "O", "W", " ", "T", "A", "B", "L", "E", "S">>
str_SHOW_TABLES_LIKE ==
    <<"S", "H", "O", "W", " ", "T", "A", "B", "L", "E", "S", " ", "L", "I", "K", "E", " ",
      "%">>
str_SHOW_ARRAY_COLUMNS_FROM ==
    <<"S", "H", "O", "W", " ", "A", "R", "R", "A", "Y", "_", "C", "O", "L", "U", "M", "N",
      "S", " ", "F", "R", "O", "M", " ">>
str_SHOW_VALID_COLUMNS_FROM ==
    <<"S", "H", "O", "W", " ", "V", "A", "L", "I", "D", "_", "C", "O", "L", "U", "M", "N",
      "S", " ", "F", "R", "O", "M", " ">>
str_TABLE == <<"T", "A", "B", "L", "E">>
str_BASE_TABLE == <<"B", "A", "S", "E", " ", "T", "A", "B", "L", "E">>
str_VIEW == <<"V", "I", "E", "W">>
str_FROM == <<"F", "R", "O", "M", " ">>
str_VIEW_NAME == <<"V", "I", "E", "W", "_", "N", "A", "M", "E">>
str_TABLE_NAME == <<"T", "A", "B", "L", "E", "_", "N", "A", "M", "E">>
str_COLUMN_NAME == <<"C", "O", "L", "U", "M", "N", "_", "N", "A", "M", "E">>
str_TYPE_NAME == <<"T", "Y", "P", "E", "_", "N", "A", "M", "E">>
str_text == <<"t", "e", "x", "t">>
str_long == <<"l", "o", "n", "g">>
str_name == <<"n", "a", "m", "e">>
str_keyword == <<"k", "e", "y", "w", "o", "r", "d">>

\* es/const.py is not among the source files; get_schema_names returns
\* [DEFAULT_SCHEMA] and the tests expect ["default"].
DEFAULT_SCHEMA == <<"d", "e", "f", "a", "u", "l", "t">>

----------------------------------------------------------------------------
\* The store, seen through the Elasticsearch client.  Every call of one
\* execute is answered from the record `answers`, which holds one answer per
\* endpoint; an answer is a response or the exception the client raises.

Request(endpoint, body) == [endpoint |-> endpoint, body |-> body]

\* A response of the SQL endpoint: a dict that may hold the keys "error",
\* "columns" and "rows" (elastic) and "schema" and "datarows" (opendistro).
Response(error, columns, rows, schema, datarows) ==
    [error |-> error, columns |-> columns, rows |-> rows,
     schema |-> schema, datarows |-> datarows]

\* BaseCursor.sanitize_query, and its override in the opendistro Cursor
sanitize_query(self, query) ==
    IF self.class = "opendistro"
    THEN Replace(Replace(Replace(Replace(query, <<"\"">>, <<>>),
                                 <<" ", " ">>, <<" ">>),
                         <<"\n">>, <<" ">>),
                 str_FROM \o DEFAULT_SCHEMA \o <<".">>, str_FROM)
    ELSE Replace(query, str_FROM \o <<"\"">> \o DEFAULT_SCHEMA \o <<"\"", ".">>, str_FROM)

\* elastic_query without the test of "error" in the response
elastic_query_by_status(self, query, answers) ==
    LET sent == <<Request("sql", sanitize_query(self, query))>>
    IN  IF answers.sql.kind = "ConnectionError"
        THEN Outcome(self, "OperationalError", None, sent)
        ELSE IF answers.sql.kind = "RequestError"
        THEN Outcome(self, "ProgrammingError", None, sent)
        ELSE IF answers.sql.kind # "response"
        THEN Outcome(self, answers.sql.kind, None, sent)
        ELSE Outcome(self, NoExc, answers.sql.response, sent)

\* BaseCursor.elastic_query: the POST to the SQL endpoint
elastic_query(self, query, answers) ==
    LET sent == <<Request("sql", sanitize_query(self, query))>>
    IN  IF answers.sql.kind = "ConnectionError"
        THEN Outcome(self, "OperationalError", None, sent)
        ELSE IF answers.sql.kind = "RequestError"
        THEN Outcome(self, "ProgrammingError", None, sent)
        ELSE IF answers.sql.kind # "response"
        THEN Outcome(self, answers.sql.kind, None, sent)
        ELSE IF answers.sql.response.error
        THEN Outcome(self, "ProgrammingError", None, sent)
        ELSE Outcome(self, NoExc, answers.sql.response, sent)

\* dict.get(key, []) on an Optional list
GetOrEmpty(o) == IF IsNone(o) THEN <<>> ELSE Val(o)

\* The SQL path shared by both execute methods, after the dispatch and
\* apply_parameters: `rows` and `columns` are what the response holds under the
\* keys the class reads.
ExecuteQuery(self, operation, answers) ==
    LET r == elastic_query(self, operation, answers)
        rows == IF self.class = "opendistro" THEN GetOrEmpty(r.ret.datarows)
                                             ELSE GetOrEmpty(r.ret.rows)
        columns == IF self.class = "opendistro" THEN r.ret.schema ELSE r.ret.columns
        assigned == [self EXCEPT !._results = Some(rows)]
        described == get_description_from_columns(Val(columns))
    IN  IF r.exc # NoExc THEN r
        ELSE IF IsNone(columns) \/ Len(Val(columns)) = 0
        THEN Outcome(self, "DataError", None, r.requests)
        ELSE IF described.exc # NoExc
        THEN Outcome(assigned, described.exc, None, r.requests)
        ELSE Outcome([assigned EXCEPT !.description = described.val],
                     NoExc, None, r.requests)

\* re.match(prefix + "(.*)", operation): the match, and its group 1 (the rest of
\* the first line; "." does not match a newline)
\* re.fullmatch(prefix, operation): the operation is the prefix and no more
ReMatch_whole(prefix, operation) == operation = prefix

ReMatch(prefix, operation) == StartsWith(operation, prefix)

RECURSIVE UpToNewline(_)
UpToNewline(s) ==
    IF Len(s) = 0 \/ Head(s) = "\n" THEN <<>> ELSE <<Head(s)>> \o UpToNewline(Tail(s))

ReGroup1(prefix, operation) == UpToNewline(SubSeq(operation, Len(prefix) + 1, Len(operation)))

\* int(s) for a str of decimal digits
DigitChars == <<"0", "1", "2", "3", "4", "5", "6", "7", "8", "9">>
DigitVal(ch) == (CHOOSE i \in 1..10 : DigitChars[i] = ch) - 1

RECURSIVE int(_)
int(s) == IF Len(s) = 0 THEN 0 ELSE 10 * int(SubSeq(s, 1, Len(s) - 1)) + DigitVal(s[Len(s)])

\* is_empty that stays False
is_empty_never(response, name) == FALSE

\* The loop of get_valid_table_view_names and get_valid_table_names over the
\* index statistics: is_empty for the row whose index name is `name`
is_empty(response, name) ==
    \E i \in 1..Len(response) :
        response[i].index = name /\ int(response[i].docs_count) = 0

\* A comparison of the minor and patch numbers alone
VersionGE_minor(a, b) ==
    \/ a[2] > b[2]
    \/ a[2] = b[2] /\ a[3] >= b[3]

\* version.parse(a) >= version.parse(b) on release numbers <<major, minor, patch>>
VersionGE(a, b) ==
    \/ a[1] > b[1]
    \/ a[1] = b[1] /\ a[2] > b[2]
    \/ a[1] = b[1] /\ a[2] = b[2] /\ a[3] >= b[3]

----------------------------------------------------------------------------
\* es/elastic/api.py: Cursor

RECURSIVE elastic_execute(_, _, _)
RECURSIVE elastic_execute_parameters(_, _, _, _)

\* Cursor.get_valid_table_view_names.  The for loop over `results` iterates
\* the cursor itself, which drains the rows the inner execute buffered.
elastic_get_valid_table_view_names(self, type_filter, answers, before) ==
    LET results == elastic_execute(self, str_SHOW_TABLES, answers)
        listed == before \o results.requests \o <<Request("cat.indices", <<>>)>>
        looped == list(results.self)
        Kept(result) ==
            ~is_empty(answers.indices.response, result[1]) /\ result[2] = type_filter
    IN  IF results.exc # NoExc
        THEN Outcome(results.self, results.exc, None, before \o results.requests)
        ELSE IF answers.indices.kind # "response"
        THEN Outcome(results.self, answers.indices.kind, None, listed)
        ELSE Outcome([looped.self EXCEPT !._results = Some(SelectSeq(looped.ret, Kept))],
                     NoExc, None, listed)

\* Cursor.get_valid_table_names
elastic_get_valid_table_names(self, answers) ==
    IF answers.info.kind # "response"
    THEN Outcome(self, answers.info.kind, None, <<Request("info", <<>>)>>)
    ELSE IF VersionGE(answers.info.response, <<7, 10, 0>>)
    THEN elastic_get_valid_table_view_names(self, str_TABLE, answers,
                                            <<Request("info", <<>>)>>)
    ELSE elastic_get_valid_table_view_names(self, str_BASE_TABLE, answers,
                                            <<Request("info", <<>>)>>)

\* Cursor.get_valid_view_names
elastic_get_valid_view_names(self, answers) ==
    elastic_get_valid_table_view_names(self, str_VIEW, answers, <<>>)

\* The rows get_array_type_columns appends for the keys of the first object of
\* a list of objects
RECURSIVE ObjectKeyColumns(_, _)
ObjectKeyColumns(col_name, keys) ==
    IF Len(keys) = 0 THEN <<>>
    ELSE << <<col_name \o <<".">> \o Head(keys)>>,
            <<col_name \o <<".">> \o Head(keys) \o <<".">> \o str_keyword>> >>
         \o ObjectKeyColumns(col_name, Tail(keys))

\* The loop without the `continue` that ends the turn of a list of objects
RECURSIVE ArrayColumns_without_continue(_)
ArrayColumns_without_continue(source) ==
    IF Len(source) = 0 THEN <<>>
    ELSE LET col_name == Head(source)[1]
             value == Head(source)[2]
         IN  (IF value.kind # "list" THEN <<>>
              ELSE (IF Len(value.elems) > 0 /\ value.elems[1].kind = "dict"
                    THEN ObjectKeyColumns(col_name, value.elems[1].keys)
                    ELSE <<>>)
                   \o << <<col_name>>, <<col_name \o <<".">> \o str_keyword>> >>)
             \o ArrayColumns_without_continue(Tail(source))

\* The loop of get_array_type_columns over source.items().  A value is
\* [kind, elems]: kind "list" with its elements, or another kind; an element
\* is [kind, keys]: kind "dict" with its keys, or another kind.
RECURSIVE ArrayColumns(_)
ArrayColumns(source) ==
    IF Len(source) = 0 THEN <<>>
    ELSE LET col_name == Head(source)[1]
             value == Head(source)[2]
         IN  (IF value.kind # "list" THEN <<>>
              ELSE IF Len(value.elems) > 0 /\ value.elems[1].kind = "dict"
              THEN ObjectKeyColumns(col_name, value.elems[1].keys)
              ELSE << <<col_name>>, <<col_name \o <<".">> \o str_keyword>> >>)
             \o ArrayColumns(Tail(source))

\* Cursor.get_array_type_columns.  The answer of es.search holds
\* hits.total.value (None when the response lacks it) and the _source of each
\* hit.
get_array_type_columns(self, table_name, answers) ==
    LET sent == <<Request("search", table_name)>>
        response == answers.search.response
        source == IF Val(response.total) = 0 THEN <<>> ELSE response.hits[1]
    IN  IF answers.search.kind = "ConnectionError"
        THEN Outcome(self, "OperationalError", None, sent)
        ELSE IF answers.search.kind = "NotFoundError"
        THEN Outcome(self, "ProgrammingError", None, sent)
        ELSE IF answers.search.kind # "response"
        THEN Outcome(self, answers.search.kind, None, sent)
        ELSE IF IsNone(response.total)
        THEN Outcome(self, "DataError", None, sent)
        ELSE IF Val(response.total) # 0 /\ Len(response.hits) = 0
        THEN Outcome(self, "IndexError", None, sent)
        ELSE Outcome([self EXCEPT
                          !.description =
                              <<CursorDescriptionRow(Some(str_name), Type_STRING,
                                                     None, None, None, None, None)>>,
                          !._results = Some(ArrayColumns(source))],
                     NoExc, None, sent)

\* Cursor.custom_sql_to_method
elastic_custom_sql_to_method ==
    << <<str_show_valid_tables, "get_valid_table_names">>,
       <<str_show_valid_views, "get_valid_view_names">> >>

\* dict.get(key): Some(value) of the first pair with the key, else None
DictGet(dict, key) ==
    LET found == {i \in 1..Len(dict) : dict[i][1] = key}
    IN  IF found # {} THEN Some(dict[CHOOSE i \in found : TRUE][2]) ELSE None

\* getattr(self, method_name)() for the methods of the table
elastic_call(self, method_name, answers) ==
    IF method_name = "get_valid_table_names"
    THEN elastic_get_valid_table_names(self, answers)
    ELSE elastic_get_valid_view_names(self, answers)

\* Cursor.execute(operation): parameters is None by default
elastic_execute(self, operation, answers) ==
    elastic_execute_parameters(self, operation, None, answers)

----------------------------------------------------------------------------
\* es/opendistro/api.py: Cursor

RECURSIVE opendistro_execute(_, _, _)
RECURSIVE opendistro_execute_parameters(_, _, _, _)

\* Cursor.get_valid_table_names
opendistro_get_valid_table_names(self, answers) ==
    LET results == opendistro_execute(self, str_SHOW_TABLES_LIKE, answers)
        listed == results.requests \o <<Request("cat.indices", <<>>)>>
        looped == list(results.self)
        Kept(result) == ~is_empty(answers.indices.response, result[3])
    IN  IF results.exc # NoExc THEN results
        ELSE IF answers.indices.kind # "response"
        THEN Outcome(results.self, answers.indices.kind, None, listed)
        ELSE Outcome([looped.self EXCEPT !._results = Some(SelectSeq(looped.ret, Kept))],
                     NoExc, None, listed)

\* Cursor.get_valid_view_names
opendistro_get_valid_view_names(self, answers) ==
    IF self.v2 THEN Return(self, None)
    ELSE IF answers.aliases.kind # "response"
    THEN Outcome(self, answers.aliases.kind, None, <<Request("cat.aliases", <<>>)>>)
    ELSE Outcome(
             [self EXCEPT
                 !.description =
                     get_description_from_columns(
                         <<Column(Some(str_VIEW_NAME), Some(str_text), None),
                           Column(Some(str_TABLE_NAME), Some(str_text), None)>>).val,
                 !._results =
                     Some([i \in 1..Len(answers.aliases.response) |->
                              <<answers.aliases.response[i].alias,
                                answers.aliases.response[i].index>>])],
             NoExc, None, <<Request("cat.aliases", <<>>)>>)

\* s.endswith(p)
EndsWith(s, p) == Len(s) >= Len(p) /\ SubSeq(s, Len(s) - Len(p) + 1, Len(s)) = p

\* The inner loop that leaves keyword sub-fields out whatever v2 is
RECURSIVE SubFieldColumns_v2(_, _, _)
SubFieldColumns_v2(self, field_name, fields) ==
    IF Len(fields) = 0 THEN <<>>
    ELSE (IF EndsWith(Head(fields)[1], str_keyword) THEN <<>>
          ELSE << <<field_name \o <<".">> \o Head(fields)[1], Val(Head(fields)[2].type)>> >>)
         \o SubFieldColumns_v2(self, field_name, Tail(fields))

\* The inner loop of _traverse_mapping over metadata["fields"].items()
RECURSIVE SubFieldColumns(_, _, _)
SubFieldColumns(self, field_name, fields) ==
    IF Len(fields) = 0 THEN <<>>
    ELSE (IF EndsWith(Head(fields)[1], str_keyword) /\ self.v2 THEN <<>>
          ELSE << <<field_name \o <<".">> \o Head(fields)[1], Val(Head(fields)[2].type)>> >>)
         \o SubFieldColumns(self, field_name, Tail(fields))

\* _traverse_mapping that hands the name of the field, and not its path, to
\* the traversal of its properties
RECURSIVE _traverse_mapping_by_name(_, _, _)
_traverse_mapping_by_name(self, mapping, parent_field_name) ==
    IF Len(mapping) = 0 THEN <<>>
    ELSE LET metadata == Head(mapping)[2]
             field_name == IF StrTruthy(parent_field_name)
                           THEN Val(parent_field_name) \o <<".">> \o Head(mapping)[1]
                           ELSE Head(mapping)[1]
         IN  (IF ~IsNone(metadata.properties)
              THEN _traverse_mapping_by_name(self, Val(metadata.properties),
                                             Some(Head(mapping)[1]))
              ELSE << <<field_name, Val(metadata.type)>> >>)
             \o (IF ~IsNone(metadata.fields)
                 THEN SubFieldColumns(self, field_name, Val(metadata.fields))
                 ELSE <<>>)
             \o _traverse_mapping_by_name(self, Tail(mapping), parent_field_name)

\* Cursor._traverse_mapping: what it appends to `results`.  A mapping is the
\* sequence of its <<field name, metadata>> items; metadata holds the Optional
\* keys "type", "properties" and "fields".
RECURSIVE _traverse_mapping(_, _, _)
_traverse_mapping(self, mapping, parent_field_name) ==
    IF Len(mapping) = 0 THEN <<>>
    ELSE LET metadata == Head(mapping)[2]
             field_name == IF StrTruthy(parent_field_name)
                           THEN Val(parent_field_name) \o <<".">> \o Head(mapping)[1]
                           ELSE Head(mapping)[1]
         IN  (IF ~IsNone(metadata.properties)
              THEN _traverse_mapping(self, Val(metadata.properties), Some(field_name))
              ELSE << <<field_name, Val(metadata.type)>> >>)
             \o (IF ~IsNone(metadata.fields)
                 THEN SubFieldColumns(self, field_name, Val(metadata.fields))
                 ELSE <<>>)
             \o _traverse_mapping(self, Tail(mapping), parent_field_name)

\* Cursor.get_valid_columns.  The answer of es.indices.get_mapping is the
\* sequence of the <<index name, properties>> the response holds.
get_valid_columns(self, index_name, answers) ==
    LET sent == <<Request("indices.get_mapping", index_name)>>
        response == answers.mapping.response
    IN  IF answers.mapping.kind # "response"
        THEN Outcome(self, answers.mapping.kind, None, sent)
        ELSE IF Len(response) = 0 THEN Outcome(self, "DataError", None, sent)
        ELSE Outcome(
                 [self EXCEPT
                     !._results =
                         Some(_traverse_mapping(self, response[1][2], None)),
                     !.description =
                         get_description_from_columns(
                             <<Column(Some(str_COLUMN_NAME), Some(str_text), None),
                               Column(Some(str_TYPE_NAME), Some(str_text), None)>>).val],
                 NoExc, None, sent)

\* get_valid_select_one without the test of what es.ping() returned
get_valid_select_one_unchecked(self, answers) ==
    IF answers.ping.kind # "response"
    THEN Outcome(self, "DatabaseError", None, <<Request("ping", <<>>)>>)
    ELSE Outcome(
             [self EXCEPT
                 !._results = Some(<< <<1>> >>),
                 !.description =
                     get_description_from_columns(
                         <<Column(Some(<<"1">>), Some(str_long), None)>>).val],
             NoExc, None, <<Request("ping", <<>>)>>)

\* Cursor.get_valid_select_one.  es.ping() answers True, False or raises.
get_valid_select_one(self, answers) ==
    IF answers.ping.kind = "ConnectionError"
    THEN Outcome(self, "DatabaseError", None, <<Request("ping", <<>>)>>)
    ELSE IF answers.ping.kind # "response"
    THEN Outcome(self, answers.ping.kind, None, <<Request("ping", <<>>)>>)
    ELSE IF ~answers.ping.response
    THEN Outcome(self, "DatabaseError", None, <<Request("ping", <<>>)>>)
    ELSE Outcome(
             [self EXCEPT
                 !._results = Some(<< <<1>> >>),
                 !.description =
                     get_description_from_columns(
                         <<Column(Some(<<"1">>), Some(str_long), None)>>).val],
             NoExc, None, <<Request("ping", <<>>)>>)

\* Cursor.custom_sql_to_method
opendistro_custom_sql_to_method ==
    << <<str_show_valid_tables, "get_valid_table_names">>,
       <<str_show_valid_views, "get_valid_view_names">>,
       <<str_select_1, "get_valid_select_one">> >>

\* getattr(self, method_name)() for the methods of the table
opendistro_call(self, method_name, answers) ==
    IF method_name = "get_valid_table_names"
    THEN opendistro_get_valid_table_names(self, answers)
    ELSE IF method_name = "get_valid_view_names"
    THEN opendistro_get_valid_view_names(self, answers)
    ELSE get_valid_select_one(self, answers)

\* Cursor.execute(operation): parameters is None by default
opendistro_execute(self, operation, answers) ==
    opendistro_execute_parameters(self, operation, None, answers)

\* cursor.execute(operation) of either class
execute(self, operation, answers) ==
    IF self.class = "opendistro" THEN opendistro_execute(self, operation, answers)
    ELSE elastic_execute(self, operation, answers)

----------------------------------------------------------------------------
\* The inputs: the operations a caller executes and the answers of the store.

op_select == <<"S", "E", "L", "E", "C", "T", " ", "c", " ", "F", "R", "O", "M", " ", "t">>
op_SELECT_1 == <<"S", "E", "L", "E", "C", "T", " ", "1">>
op_SHOW_VALID_TABLES ==
    <<"S", "H", "O", "W", " ", "V", "A", "L", "I", "D", "_", "T", "A", "B", "L", "E",
      "S">>
op_SHOW_VALID_VIEWS ==
    <<"S", "H", "O", "W", " ", "V", "A", "L", "I", "D", "_", "V", "I", "E", "W", "S">>
op_SHOW_ARRAY_COLUMNS == str_SHOW_ARRAY_COLUMNS_FROM \o <<"t">>
op_SHOW_VALID_COLUMNS == str_SHOW_VALID_COLUMNS_FROM \o <<"t">>

Operations ==
    {op_select, op_SELECT_1, op_SHOW_VALID_TABLES, op_SHOW_VALID_VIEWS,
     op_SHOW_ARRAY_COLUMNS, op_SHOW_VALID_COLUMNS}

\* The operations executed where the subject is the fetching of the rows: a
\* query, and the catalog command whose opendistro handler has two branches
CursorOperations == {op_select, op_SHOW_VALID_VIEWS}

\* The operation executed where the subject is the life of the objects
LifeOperations == {op_select}

\* An answer of the client: the exception it raises, or the response
Raised(kind) == [kind |-> kind, response |-> None]
Responded(response) == [kind |-> "response", response |-> response]
\* The answer of an endpoint the call is not expected to ask
Unasked == Raised("unasked")

\* The i-th row of a query result: one str value, "r<i>"
DataRow(i) == << <<"r", DigitChars[i + 1]>> >>
DataRows(n) == [i \in 1..n |-> DataRow(i)]

\* A response of the SQL endpoint with these columns and rows, under the keys
\* the store behind a cursor of this class uses
SqlResponse(class, columns, rows) ==
    IF class = "opendistro"
    THEN Response(FALSE, None, None, Some(columns), Some(rows))
    ELSE Response(FALSE, Some(columns), Some(rows), None, None)

ColumnsOfQuery == <<Column(Some(<<"c">>), Some(str_text), None)>>
\* geo_shape is a field type of the store that get_type's table does not hold
ColumnsOfUnknownType ==
    <<Column(Some(<<"c">>), Some(<<"g", "e", "o", "_", "s", "h", "a", "p", "e">>), None)>>

\* What the SQL endpoint answers to a query: no connection, a rejected query, an
\* error object, the response of the other dialect, a column of a type the
\* typer does not know, or 0..MaxRows rows of one text column.
SqlQueryAnswers(class) ==
    {Raised("ConnectionError"), Raised("RequestError"),
     Responded(Response(TRUE, None, None, None, None)),
     Responded(SqlResponse(IF class = "opendistro" THEN "elastic" ELSE "opendistro",
                           ColumnsOfQuery, DataRows(1))),
     Responded(SqlResponse(class, ColumnsOfUnknownType, DataRows(1)))}
    \cup {Responded(SqlResponse(class, ColumnsOfQuery, DataRows(n))) : n \in 0..MaxRows}

name_t1 == <<"t", "1">>
name_t2 == <<"t", "2">>
name_v1 == <<"v", "1">>

\* What the SQL endpoint answers to SHOW TABLES (elastic: name, type) and to
\* SHOW TABLES LIKE % (opendistro: the name is the third column)
SqlListingAnswers(class) ==
    IF class = "opendistro"
    THEN {Raised("ConnectionError"),
          Responded(SqlResponse(class,
              <<Column(Some(<<"T", "A", "B", "L", "E", "_", "C", "A", "T">>),
                       Some(str_keyword), None),
                Column(Some(<<"T", "A", "B", "L", "E", "_", "S", "C", "H", "E", "M">>),
                       Some(str_keyword), None),
                Column(Some(str_TABLE_NAME), Some(str_keyword), None)>>,
              << <<<<"e", "s">>, <<>>, name_t1>>, <<<<"e", "s">>, <<>>, name_t2>> >>))}
    ELSE {Raised("ConnectionError"),
          Responded(SqlResponse(class,
              <<Column(Some(str_name), Some(str_keyword), None),
                Column(Some(<<"t", "y", "p", "e">>), Some(str_keyword), None)>>,
              << <<name_t1, str_TABLE>>, <<name_t2, str_BASE_TABLE>>,
                 <<name_v1, str_VIEW>> >>))}

\* es.cat.indices(format="json"): the index and docs.count of each index
IndicesAnswers ==
    {Raised("ConnectionError"),
     Responded(<<>>),
     Responded(<<[index |-> name_t1, docs_count |-> <<"0">>],
                 [index |-> name_t2, docs_count |-> <<"1", "0">>]>>),
     Responded(<<[index |-> name_t2, docs_count |-> <<"0">>],
                 [index |-> name_t1, docs_count |-> <<"1">>],
                 [index |-> name_v1, docs_count |-> <<"0", "0">>]>>)}


\* es.info(): the release number of version.number
InfoAnswers ==
    {Raised("ConnectionError"), Responded(<<7, 9, 3>>), Responded(<<7, 10, 0>>),
     Responded(<<8, 0, 0>>)}

\* es.cat.aliases(format="json")
AliasesAnswers ==
    {Raised("ConnectionError"), Responded(<<[alias |-> name_v1, index |-> name_t1]>>)}

\* es.ping()
PingAnswers == {Raised("ConnectionError"), Responded(FALSE), Responded(TRUE)}

Scalar == [kind |-> "scalar", elems |-> <<>>]
ListOf(elems) == [kind |-> "list", elems |-> elems]
Element == [kind |-> "scalar", keys |-> <<>>]
Object(keys) == [kind |-> "dict", keys |-> keys]

str_tags == <<"t", "a", "g", "s">>

\* es.search(index=table_name, size=1): hits.total.value and the _source of the hits
SearchAnswers ==
    {Raised("ConnectionError"), Raised("NotFoundError"),
     Responded([total |-> None, hits |-> <<>>]),
     Responded([total |-> Some(0), hits |-> <<>>]),
     Responded([total |-> Some(1), hits |-> << << <<<<"n">>, Scalar>> >> >>]),
     Responded([total |-> Some(1),
                hits |-> << << <<<<"a">>, ListOf(<<Element, Element>>)>>,
                               <<<<"n">>, Scalar>>,
                               <<<<"o">>, ListOf(<<Object(<<<<"k">>>>)>>)>>,
                               <<<<"e">>, ListOf(<<>>)>> >> >>]),
     Responded([total |-> Some(1),
                hits |-> << << <<str_tags, ListOf(<<Element, Element>>)>> >> >>]),
     Responded([total |-> Some(2),
                hits |-> << << <<<<"o">>,
                                 ListOf(<<Object(<<<<"k">>, <<"j">>>>), Object(<<<<"z">>>>)>>)>>,
                               <<<<"d">>, [kind |-> "dict", elems |-> <<>>]>>,
                               <<<<"m">>, ListOf(<<Object(<<>>)>>)>> >>,
                            << <<<<"a">>, ListOf(<<Element>>)>> >> >>])}

Metadata(type, properties, fields) ==
    [type |-> type, properties |-> properties, fields |-> fields]

\* es.indices.get_mapping(index=index_name): the properties of each index
MappingAnswers ==
    {Raised("NotFoundError"),
     Responded(<<>>),
     Responded(<< <<name_t1,
                    << <<<<"f">>,
                         Metadata(Some(str_text), None,
                                  Some(<< <<str_keyword,
                                            Metadata(Some(str_keyword), None, None)>> >>))>>,
                       <<<<"a">>,
                         Metadata(None,
                                  Some(<< <<<<"b">>,
                                            Metadata(Some(str_keyword), None, None)>> >>),
                                  None)>> >> >> >>)}

\* The method that answers the operation on a cursor of the class
PathOf(class, operation) ==
    IF class = "opendistro"
    THEN IF ~IsNone(DictGet(opendistro_custom_sql_to_method, Lower(operation)))
         THEN Val(DictGet(opendistro_custom_sql_to_method, Lower(operation)))
         ELSE IF ReMatch(str_SHOW_VALID_COLUMNS_FROM, operation) THEN "get_valid_columns"
         ELSE "sql"
    ELSE IF ~IsNone(DictGet(elastic_custom_sql_to_method, Lower(operation)))
         THEN Val(DictGet(elastic_custom_sql_to_method, Lower(operation)))
         ELSE IF ReMatch(str_SHOW_ARRAY_COLUMNS_FROM, operation)
         THEN "get_array_type_columns"
         ELSE "sql"

\* The answers the store may give during execute(operation): one per endpoint
\* the method may ask
AnswersFor(class, operation) ==
    LET path == PathOf(class, operation)
        listing == \/ path = "get_valid_table_names"
                   \/ path = "get_valid_view_names" /\ class = "elastic"
    IN  [sql : IF path = "sql" THEN SqlQueryAnswers(class)
               ELSE IF listing THEN SqlListingAnswers(class) ELSE {Unasked},
         info : IF path = "get_valid_table_names" /\ class = "elastic"
                THEN InfoAnswers ELSE {Unasked},
         indices : IF listing THEN IndicesAnswers ELSE {Unasked},
         aliases : IF path = "get_valid_view_names" /\ class = "opendistro"
                   THEN AliasesAnswers ELSE {Unasked},
         ping : IF path = "get_valid_select_one" THEN PingAnswers ELSE {Unasked},
         search : IF path = "get_array_type_columns" THEN SearchAnswers ELSE {Unasked},
         mapping : IF path = "get_valid_columns" THEN MappingAnswers ELSE {Unasked}]

----------------------------------------------------------------------------
\* The parameter binder of es/baseapi.py: apply_parameters and escape.
\*
\* A parameter value is a Python object of any type, encoded as its type with
\* its content: the characters of a str, the number of an int (of a bool: 1
\* or 0), the elements of a list or tuple.

PyObject(type, chars, num, elems) ==
    [type |-> type, chars |-> chars, num |-> num, elems |-> elems]
PyStr(chars) == PyObject("str", chars, 0, <<>>)
PyInt(n) == PyObject("int", <<>>, n, <<>>)
PyBool(b) == PyObject("bool", <<>>, IF b THEN 1 ELSE 0, <<>>)
PyList(elems) == PyObject("list", <<>>, 0, elems)
PyTuple(elems) == PyObject("tuple", <<>>, 0, elems)
PyNone == PyObject("NoneType", <<>>, 0, <<>>)

str_TRUE == <<"T", "R", "U", "E">>
str_FALSE == <<"F", "A", "L", "S", "E">>

\* str(n) of an int
RECURSIVE IntToStr(_)
IntToStr(n) ==
    IF n < 0 THEN <<"-">> \o IntToStr(-n)
    ELSE IF n < 10 THEN <<DigitChars[n + 1]>>
    ELSE IntToStr(n \div 10) \o <<DigitChars[(n % 10) + 1]>>

\* str(value) of a str, an int, a bool or None
StrOf(value) ==
    IF value.type = "str" THEN value.chars
    ELSE IF value.type = "int" THEN IntToStr(value.num)
    ELSE IF value.type = "bool"
    THEN (IF value.num = 1 THEN <<"T", "r", "u", "e">> ELSE <<"F", "a", "l", "s", "e">>)
    ELSE <<"N", "o", "n", "e">>

\* sep.join(strs) of a sequence of str
RECURSIVE Join(_, _)
Join(sep, strs) ==
    IF Len(strs) = 0 THEN <<>>
    ELSE IF Len(strs) = 1 THEN strs[1]
    ELSE strs[1] \o sep \o Join(sep, Tail(strs))

\* escape with the int test before the bool test: a bool is an int
RECURSIVE escape_int_first(_)
escape_int_first(value) ==
    LET escaped == [i \in 1..Len(value.elems) |-> escape_int_first(value.elems[i])]
        failed == {i \in 1..Len(escaped) : escaped[i].exc # NoExc}
    IN  IF value = PyStr(<<"*">>) THEN Return(None, value)
        ELSE IF value.type = "str"
        THEN Return(None, PyStr(<<"'">> \o Replace(value.chars, <<"'">>, <<"'", "'">>)
                                \o <<"'">>))
        ELSE IF value.type \in {"int", "float", "bool"} THEN Return(None, value)
        ELSE IF value.type \in {"list", "tuple"}
        THEN IF failed # {}
             THEN Raise(None, escaped[CHOOSE i \in failed : \A j \in failed : i <= j].exc)
             ELSE IF \E i \in 1..Len(escaped) : escaped[i].ret.type # "str"
             THEN Raise(None, "TypeError")
             ELSE Return(None, PyStr(Join(<<",", " ">>,
                                          [i \in 1..Len(escaped) |-> escaped[i].ret.chars])))
        ELSE Return(None, PyNone)

\* escape that quotes a str without doubling the quotes in it
RECURSIVE escape_undoubled(_)
escape_undoubled(value) ==
    LET escaped == [i \in 1..Len(value.elems) |-> escape_undoubled(value.elems[i])]
        failed == {i \in 1..Len(escaped) : escaped[i].exc # NoExc}
    IN  IF value = PyStr(<<"*">>) THEN Return(None, value)
        ELSE IF value.type = "str"
        THEN Return(None, PyStr(<<"'">> \o value.chars \o <<"'">>))
        ELSE IF value.type = "bool"
        THEN Return(None, PyStr(IF value.num = 1 THEN str_TRUE ELSE str_FALSE))
        ELSE IF value.type \in {"int", "float"} THEN Return(None, value)
        ELSE IF value.type \in {"list", "tuple"}
        THEN IF failed # {}
             THEN Raise(None, escaped[CHOOSE i \in failed : \A j \in failed : i <= j].exc)
             ELSE IF \E i \in 1..Len(escaped) : escaped[i].ret.type # "str"
             THEN Raise(None, "TypeError")
             ELSE Return(None, PyStr(Join(<<",", " ">>,
                                          [i \in 1..Len(escaped) |-> escaped[i].ret.chars])))
        ELSE Return(None, PyNone)

\* escape(value).  The elements of a list or tuple are escaped in order, and
\* str.join raises TypeError when one of the escaped elements is not a str; a
\* value of any other type falls off the end of the function: None.
RECURSIVE escape(_)
escape(value) ==
    LET escaped == [i \in 1..Len(value.elems) |-> escape(value.elems[i])]
        failed == {i \in 1..Len(escaped) : escaped[i].exc # NoExc}
    IN  IF value = PyStr(<<"*">>) THEN Return(None, value)
        ELSE IF value.type = "str"
        THEN Return(None, PyStr(<<"'">> \o Replace(value.chars, <<"'">>, <<"'", "'">>)
                                \o <<"'">>))
        ELSE IF value.type = "bool"
        THEN Return(None, PyStr(IF value.num = 1 THEN str_TRUE ELSE str_FALSE))
        ELSE IF value.type \in {"int", "float"} THEN Return(None, value)
        ELSE IF value.type \in {"list", "tuple"}
        THEN IF failed # {}
             THEN Raise(None, escaped[CHOOSE i \in failed : \A j \in failed : i <= j].exc)
             ELSE IF \E i \in 1..Len(escaped) : escaped[i].ret.type # "str"
             THEN Raise(None, "TypeError")
             ELSE Return(None, PyStr(Join(<<",", " ">>,
                                          [i \in 1..Len(escaped) |-> escaped[i].ret.chars])))
        ELSE Return(None, PyNone)

\* The characters Python reads as part of a conversion after a %: flags,
\* width, precision, length modifier and conversion type
FormatCharacters ==
    {"#", "0", "-", " ", "+", "*", ".", "h", "l", "L", "d", "i", "o", "u", "x", "X",
     "e", "E", "f", "F", "g", "G", "c", "r", "s", "a", "%"}
    \cup {DigitChars[i] : i \in 1..10}

\* %(key)s
Placeholder(key) == <<"%", "(">> \o key \o <<")", "s">>

\* format % mapping from position i of the format, for a dict `mapping` of
\* str keys: %% is a %, %(key)s is str(mapping[key]) (KeyError without the
\* key), and a % at the end, a key that is not closed or a character that is
\* no conversion raise ValueError.  The keys of the model hold no
\* parenthesis, and its formats no conversion other than %(key)s.
RECURSIVE FormatFrom(_, _, _)
FormatFrom(format, i, mapping) ==
    LET closing == {j \in (i + 2)..Len(format) : format[j] = ")"}
        j == CHOOSE k \in closing : \A l \in closing : k <= l
        value == DictGet(mapping, SubSeq(format, i + 2, j - 1))
        rest(k, chars) ==
            LET formatted == FormatFrom(format, k, mapping)
            IN  IF formatted.exc # NoExc THEN formatted
                ELSE Return(None, chars \o formatted.ret)
    IN  IF i > Len(format) THEN Return(None, <<>>)
        ELSE IF format[i] # "%" THEN rest(i + 1, <<format[i]>>)
        ELSE IF i = Len(format) THEN Raise(None, "ValueError")
        ELSE IF format[i + 1] = "%" THEN rest(i + 2, <<"%">>)
        ELSE IF format[i + 1] = "("
        THEN IF closing = {} THEN Raise(None, "ValueError")
             ELSE IF IsNone(value) THEN Raise(None, "KeyError")
             ELSE IF j = Len(format) THEN Raise(None, "ValueError")
             ELSE CASE format[j + 1] = "s" -> rest(j + 2, StrOf(Val(value)))
                    [] format[j + 1] = "%" -> rest(j + 2, <<"%">>)
                    [] format[j + 1] \notin FormatCharacters -> Raise(None, "ValueError")
        ELSE CASE format[i + 1] \notin FormatCharacters -> Raise(None, "ValueError")

\* {key: escape(value) for key, value in parameters.items()}: the first
\* escape that raises ends the comprehension
EscapedParameters(parameters) ==
    LET escaped == [i \in 1..Len(parameters) |-> escape(parameters[i][2])]
        failed == {i \in 1..Len(escaped) : escaped[i].exc # NoExc}
    IN  IF failed # {}
        THEN Raise(None, escaped[CHOOSE i \in failed : \A j \in failed : i <= j].exc)
        ELSE Return(None, [i \in 1..Len(parameters) |->
                              <<parameters[i][1], escaped[i].ret>>])

\* apply_parameters with `parameters or {}` in place of the test for None
apply_parameters_or_empty(operation, parameters) ==
    LET mapping == IF IsNone(parameters) THEN <<>> ELSE Val(parameters)
        escaped == EscapedParameters(mapping)
    IN  IF escaped.exc # NoExc THEN escaped
        ELSE FormatFrom(operation, 1, escaped.ret)

\* apply_parameters(operation, parameters): parameters is None or Some(dict),
\* a dict being the sequence of its (key, value) pairs
apply_parameters(operation, parameters) ==
    LET escaped == EscapedParameters(Val(parameters))
    IN  IF IsNone(parameters) THEN Return(None, operation)
        ELSE IF escaped.exc # NoExc THEN escaped
        ELSE FormatFrom(operation, 1, escaped.ret)

\* The inputs of the functions.

\* The sequences of at most n elements of S
SeqsUpTo(S, n) == UNION {[1..k -> S] : k \in 0..n}

Scalars ==
    {PyStr(<<"*">>), PyStr(<<"a">>), PyStr(<<"o", "'", "c">>), PyBool(TRUE),
     PyBool(FALSE), PyInt(1), PyInt(2), PyInt(-10), PyNone}

\* Lists and tuples of scalars, and lists that hold one of them
FlatSequences ==
    {PyList(elems) : elems \in SeqsUpTo(Scalars, MaxElements)}
    \cup {PyTuple(elems) : elems \in SeqsUpTo(Scalars, 1)}

\* The strs of at most MaxChars characters of a letter, the quote and the star
Strings == {PyStr(chars) : chars \in SeqsUpTo({"a", "'", "*"}, MaxChars)}

Values ==
    Scalars \cup Strings \cup FlatSequences

    \cup {PyList(<<inner>>) : inner \in FlatSequences}
    \cup {PyList(<<PyStr(<<"a">>), inner>>) :
              inner \in {PyTuple(elems) : elems \in SeqsUpTo(Scalars, 1)}}

str_flag == <<"f", "l", "a", "g">>
str_x_eq == <<"x", " ", "=", " ">>

\* The operations apply_parameters is given
Statements ==
    {str_x_eq \o Placeholder(str_flag),
     Placeholder(str_flag) \o <<",", " ">> \o Placeholder(str_name),
     Placeholder(str_name) \o <<" ", "=", " ", "1">>,
     str_SHOW_TABLES_LIKE,
     <<"a", "%", "%">>,
     <<"%", "(", "f", "l", "a", "g">>,
     <<"%", "=">>,
     op_select}

\* The values of the parameters
ParameterValues ==
    Scalars \cup {PyList(<<PyInt(1), PyInt(2)>>),
                  PyList(<<PyStr(<<"a">>), PyStr(<<"b">>)>>)}

\* The parameters apply_parameters is given: None, or a dict of one or two keys
Parameters ==
    {None}
    \cup {Some(<< <<str_flag, v>> >>) : v \in ParameterValues}
    \cup {Some(<< <<str_flag, v>>, <<str_name, w>> >>) :
              v \in {PyBool(TRUE), PyBool(FALSE), PyInt(1)}, w \in ParameterValues}

\* The columns get_description_from_columns is given
ColumnTypes ==
    {Some(str_text), Some(<<"T", "E", "X", "T">>), Some(str_long),
     Some(<<"b", "o", "o", "l", "e", "a", "n">>), Some(<<"d", "a", "t", "e">>),
     Some(<<"g", "e", "o", "_", "s", "h", "a", "p", "e">>), Some(<<>>), None}

ColumnLists ==
    SeqsUpTo({Column(Some(<<"c">>), type, alias) :
                  type \in ColumnTypes, alias \in {None, Some(<<>>), Some(<<"a">>)}},
             MaxColumns)

\* The upper-case letter of a lower-case ASCII letter, else the character
UpperChar(ch) ==
    IF \E i \in 1..Len(LowerChars) : LowerChars[i] = ch
    THEN UpperChars[CHOOSE i \in 1..Len(LowerChars) : LowerChars[i] = ch]
    ELSE ch

\* The spellings of a type name: each of its first MaxCased characters in
\* upper or in lower case, and the name in upper case throughout
Spellings(key) ==
    {[i \in 1..Len(key) |-> IF i \in U THEN UpperChar(key[i]) ELSE key[i]] :
         U \in SUBSET (1..Min(Len(key), MaxCased))}
    \cup {[i \in 1..Len(key) |-> UpperChar(key[i])]}

\* The type names get_type is given: the keys of its table, in these spellings
TypeNames == UNION {Spellings(key) : key \in TypeKeys}

----------------------------------------------------------------------------
\* The configurations and the calls of the state machine.

\* The class of the connection and the v2 keyword argument of connect(...)
Configurations ==
    {<<"elastic", FALSE>>, <<"opendistro", FALSE>>, <<"opendistro", TRUE>>}

\* The sizes a caller passes to fetchmany: omitted, or an int
Sizes == {None} \cup {Some(k) : k \in (-1)..(MaxRows + 1)}

\* The values a caller assigns to arraysize
ArraySizes == 1..MaxRows

\* The history of a cursor on which nothing has been called
NewHistory(made) ==
    [made |-> made,       \* the method of the connection that created the cursor:
                          \* cursor (also under __enter__) or execute
     executed |-> FALSE,  \* execute has been called
     rows |-> <<>>,       \* the rows in the buffer when the last execute ended
     fetched |-> <<>>,    \* the rows returned since, in the order returned
     produced |-> None,   \* the last execute returned: the rows a new cursor
                          \* holds after that same execute
     described |-> <<>>]  \* and the description of that new cursor

\* A call and its outcome: the method, the cursor it is called on or creates
\* (0: none), its argument (of Connection.close: whether each cursor was
\* closed when it was called), the exception raised, the value returned and
\* the requests made to the store
Call(op, cur, arg, out) ==
    [op |-> op, cur |-> cur, arg |-> arg, exc |-> out.exc, ret |-> out.ret,
     requests |-> out.requests]

Init ==
    /\ \E c \in Configurations :
           conn = [class |-> c[1], v2 |-> c[2], closed |-> FALSE, cursors |-> <<>>]
    /\ hist = <<>>
    /\ last = Call("connect", 0, None, Return(None, None))

Cursors == 1..Len(conn.cursors)

----------------------------------------------------------------------------
\* BaseConnection and the Connection classes

\* The loop of BaseConnection.close over self.cursors: each cursor.close(),
\* where an exceptions.Error is passed over and any other exception ends the
\* loop and the call.
RECURSIVE CloseCursors(_, _)
CloseCursors(cursors, i) ==
    LET closing == close(cursors[i])
    IN  IF i > Len(cursors) THEN Return(cursors, None)
        ELSE IF closing.exc = NoExc
        THEN CloseCursors([cursors EXCEPT ![i] = closing.self], i + 1)
        ELSE IF IsInstance(closing.exc, "Error") THEN CloseCursors(cursors, i + 1)
        ELSE Raise(cursors, closing.exc)

\* BaseConnection.close without its loop over self.cursors
Connection_close_alone(self) ==
    IF check_closed(self) THEN Raise(self, "Error")
    ELSE Return([self EXCEPT !.closed = TRUE], None)

\* BaseConnection.close
Connection_close(self) ==
    LET closing == CloseCursors(self.cursors, 1)
    IN  IF check_closed(self) THEN Raise(self, "Error")
        ELSE Outcome([self EXCEPT !.closed = TRUE, !.cursors = closing.self],
                     closing.exc, None, <<>>)

\* BaseConnection.commit
Connection_commit(self) ==
    IF check_closed(self) THEN Raise(self, "Error") ELSE Return(self, None)

\* Connection.cursor without its @check_closed
Connection_cursor_unchecked(self) ==
    Return([self EXCEPT !.cursors = Append(self.cursors, NewCursor(self.class, self.v2))],
           None)

\* Connection.cursor of es/elastic/api.py and of es/opendistro/api.py
Connection_cursor(self) ==
    IF check_closed(self) THEN Raise(self, "Error")
    ELSE Return([self EXCEPT !.cursors = Append(self.cursors,
                                                NewCursor(self.class, self.v2))],
                None)

\* BaseConnection.execute: a new cursor, and execute on it
\* The connection after cursor.execute(...) on its newest cursor ended as `out`
WithNewest(self, out) ==
    Outcome([self EXCEPT !.cursors[Len(self.cursors)] = out.self], out.exc, out.ret,
            out.requests)

Connection_execute(self, operation, answers) ==
    IF check_closed(self) THEN Raise(self, "Error")
    ELSE WithNewest(Connection_cursor(self).self,
                    execute(NewCursor(self.class, self.v2), operation, answers))

\* BaseConnection.__enter__
Connection_enter(self) == Connection_cursor(self)

\* BaseConnection.__exit__
Connection_exit(self) == Connection_close(self)

----------------------------------------------------------------------------
\* The calls on the connection.  `limit` bounds the cursors one connection
\* produces.

\* The index of the cursor a call created, 0 when it created none
Made(before, after) ==
    IF Len(after.cursors) > Len(before.cursors) THEN Len(after.cursors) ELSE 0

ConnClose ==
    /\ conn' = Connection_close(conn).self
    /\ last' = Call("Connection.close", 0, [i \in Cursors |-> conn.cursors[i].closed],
                    Connection_close(conn))
    /\ UNCHANGED hist

ConnExit ==
    /\ conn' = Connection_exit(conn).self
    /\ last' = Call("Connection.__exit__", 0, None, Connection_exit(conn))
    /\ UNCHANGED hist

ConnCommit ==
    /\ conn' = Connection_commit(conn).self
    /\ last' = Call("Connection.commit", 0, None, Connection_commit(conn))
    /\ UNCHANGED hist

ConnCursor(limit) ==
    /\ conn.closed \/ Len(conn.cursors) < limit
    /\ conn' = Connection_cursor(conn).self
    /\ last' = Call("Connection.cursor", Made(conn, conn'), None, Connection_cursor(conn))
    /\ hist' = IF Len(conn'.cursors) > Len(conn.cursors)
               THEN Append(hist, NewHistory("Connection.cursor")) ELSE hist

ConnEnter(limit) ==
    /\ conn.closed \/ Len(conn.cursors) < limit
    /\ conn' = Connection_enter(conn).self
    /\ last' = Call("Connection.__enter__", Made(conn, conn'), None,
                    Connection_enter(conn))
    /\ hist' = IF Len(conn'.cursors) > Len(conn.cursors)
               THEN Append(hist, NewHistory("Connection.cursor")) ELSE hist

\* The history after execute(operation) on a cursor ended as `out`
\* The history after execute ended with exception `exc` on `cursor`, where
\* `fresh` is the outcome of the same execute on a new cursor
Executed(made, cursor, exc, fresh) ==
    [made |-> made,
     executed |-> TRUE,
     rows |-> Val(cursor._results),
     fetched |-> <<>>,
     produced |-> IF exc # NoExc THEN None ELSE fresh.self._results,
     described |-> IF exc # NoExc THEN <<>> ELSE fresh.self.description]

ConnExecuted(operation, out, fresh) ==
    LET n == Len(out.self.cursors)
    IN  /\ conn' = out.self
        /\ last' = Call("Connection.execute", Made(conn, out.self), operation, out)
        /\ hist' = IF n > Len(conn.cursors)
                   THEN Append(hist, Executed("Connection.execute", out.self.cursors[n],
                                              out.exc, fresh))
                   ELSE hist

ConnExecute(limit, operations) ==
    /\ conn.closed \/ Len(conn.cursors) < limit
    /\ \E operation \in operations :
         \E answers \in AnswersFor(conn.class, operation) :
           ConnExecuted(operation, Connection_execute(conn, operation, answers),
                        execute(NewCursor(conn.class, conn.v2), operation, answers))

----------------------------------------------------------------------------
\* The calls on cursor i

\* The call ended as `out`: the cursor afterwards and the outcome
Apply(op, i, arg, out) ==
    /\ conn' = [conn EXCEPT !.cursors[i] = out.self]
    /\ last' = Call(op, i, arg, out)

\* The history after a fetch call returned the rows `returned`
Fetched(h, out, returned) ==
    IF out.exc = NoExc THEN [h EXCEPT !.fetched = @ \o returned] ELSE h

CurClose(i) ==
    /\ Apply("close", i, None, close(conn.cursors[i]))
    /\ UNCHANGED hist

CurExecuted(i, operation, out, fresh) ==
    /\ Apply("execute", i, operation, out)
    /\ hist' = [hist EXCEPT ![i] =
                   IF conn.cursors[i].closed THEN [@ EXCEPT !.executed = TRUE]
                   ELSE Executed(@.made, out.self, out.exc, fresh)]

CurExecute(i, operations) ==
    \E operation \in operations :
      \E answers \in AnswersFor(conn.class, operation) :
        CurExecuted(i, operation, execute(conn.cursors[i], operation, answers),
                    execute(NewCursor(conn.class, conn.v2), operation, answers))

CurExecutemany(i) ==
    /\ Apply("executemany", i, None, executemany(conn.cursors[i]))
    /\ UNCHANGED hist

CurRowcount(i) ==
    /\ Apply("rowcount", i, None, rowcount(conn.cursors[i]))
    /\ UNCHANGED hist

CurFetchone(i) ==
    LET out == fetchone(conn.cursors[i])
    IN  /\ Apply("fetchone", i, None, out)
        /\ hist' = [hist EXCEPT ![i] = Fetched(@, out, out.ret)]

CurFetchmany(i) ==
    \E size \in Sizes :
        LET out == fetchmany(conn.cursors[i], size)
        IN  /\ Apply("fetchmany", i, size, out)
            /\ hist' = [hist EXCEPT ![i] = Fetched(@, out, out.ret)]

CurFetchall(i) ==
    LET out == fetchall(conn.cursors[i])
    IN  /\ Apply("fetchall", i, None, out)
        /\ hist' = [hist EXCEPT ![i] = Fetched(@, out, out.ret)]

CurIter(i) ==
    /\ Apply("__iter__", i, None, iter(conn.cursors[i]))
    /\ UNCHANGED hist

CurNext(i) ==
    LET out == next(conn.cursors[i])
    IN  /\ Apply("__next__", i, None, out)
        /\ hist' = [hist EXCEPT ![i] = Fetched(@, out, <<out.ret>>)]

\* cursor.arraysize = k
SetArraysize(i) ==
    \E k \in ArraySizes :
        /\ conn.cursors[i].arraysize # k
        /\ conn' = [conn EXCEPT !.cursors[i].arraysize = k]
        /\ last' = Call("arraysize", i, Some(k), Return(None, None))
        /\ UNCHANGED hist

----------------------------------------------------------------------------
\* The specifications

ConnCalls(limit, operations) ==
    \/ ConnCursor(limit)
    \/ ConnEnter(limit)
    \/ ConnExecute(limit, operations)
    \/ ConnClose
    \/ ConnExit
    \/ ConnCommit

LifeCalls ==
    \E i \in Cursors : CurClose(i) \/ CurExecutemany(i)

ExecuteCalls(operations) ==
    \E i \in Cursors : CurExecute(i, operations)

FetchCalls ==
    \E i \in Cursors :
        \/ CurRowcount(i)
        \/ CurFetchone(i)
        \/ CurFetchmany(i)
        \/ CurFetchall(i)
        \/ CurIter(i)
        \/ CurNext(i)
        \/ SetArraysize(i)

\* The connection with every call on it and on up to MaxCursors cursors
Next ==
    \/ ConnCalls(MaxCursors, Operations)
    \/ LifeCalls
    \/ ExecuteCalls(Operations)
    \/ FetchCalls

Spec == Init /\ [][Next]_vars

\* The connection with one cursor
NextCursor ==
    \/ ConnCalls(1, CursorOperations)
    \/ LifeCalls
    \/ ExecuteCalls(CursorOperations)
    \/ FetchCalls

SpecCursor == Init /\ [][NextCursor]_vars

\* The connection and the life of its cursors: every call on the connection,
\* and close and executemany on each cursor
NextLife == ConnCalls(MaxCursors, LifeOperations) \/ LifeCalls

SpecLife == Init /\ [][NextLife]_vars

\* The connection with one cursor and execute alone, with every operation
NextExecute ==
    \/ ConnCursor(1)
    \/ ConnExecute(1, Operations)
    \/ ExecuteCalls(Operations)

SpecExecute == Init /\ [][NextExecute]_vars

\* The functions of es/baseapi.py, each called once with one of its inputs.
\* They act on no connection: conn and hist stay as connect(...) leaves them,
\* and `last` holds the function to call with its arguments, then the call
\* and its outcome.
Given(function, arg) == Call("given", 0, <<function, arg>>, Return(None, None))

InitFunctions ==
    /\ \E c \in Configurations :
           conn = [class |-> c[1], v2 |-> c[2], closed |-> FALSE, cursors |-> <<>>]
    /\ hist = <<>>
    /\ \/ \E value \in Values : last = Given("escape", value)
       \/ \E operation \in Statements, parameters \in Parameters :
              last = Given("apply_parameters", <<operation, parameters>>)
       \/ \E columns \in ColumnLists :
              last = Given("get_description_from_columns", columns)
       \/ \E data_type \in TypeNames : last = Given("get_type", data_type)


CallEscape ==
    /\ last.op = "given"
    /\ last.arg[1] = "escape"
    /\ last' = Call("escape", 0, last.arg[2], escape(last.arg[2]))
    /\ UNCHANGED <<conn, hist>>

CallApplyParameters ==
    /\ last.op = "given"
    /\ last.arg[1] = "apply_parameters"
    /\ last' = Call("apply_parameters", 0, last.arg[2],
                    apply_parameters(last.arg[2][1], last.arg[2][2]))
    /\ UNCHANGED <<conn, hist>>

CallGetDescription ==
    /\ last.op = "given"
    /\ last.arg[1] = "get_description_from_columns"
    /\ last' = Call("get_description_from_columns", 0, last.arg[2],
                    Outcome(None, get_description_from_columns(last.arg[2]).exc,
                            get_description_from_columns(last.arg[2]).val, <<>>))
    /\ UNCHANGED <<conn, hist>>

CallGetType ==
    /\ last.op = "given"
    /\ last.arg[1] = "get_type"
    /\ last' = Call("get_type", 0, last.arg[2],
                    Outcome(None, get_type(Some(last.arg[2])).exc,
                            get_type(Some(last.arg[2])).val, <<>>))
    /\ UNCHANGED <<conn, hist>>

NextFunctions ==
    CallEscape \/ CallApplyParameters \/ CallGetDescription \/ CallGetType


SpecFunctions == InitFunctions /\ [][NextFunctions]_vars

\* One execute on one cursor, with the answers of the store kept: `last` holds
\* the operation and the answers execute is given, then the call and its
\* outcome.  The cursor is new, or holds the result of a query of one row.

\* The operation with its first letter kept and the rest in lower case
Capitalized(operation) == <<Head(operation)>> \o Lower(Tail(operation))

\* The operations as a caller may spell them: those of Operations, and each in
\* lower case and capitalized
CatalogOperations ==
    Operations \cup {Lower(operation) : operation \in Operations}
               \cup {Capitalized(operation) : operation \in Operations}

\* The answers of the store to a query that has one row
OneRowAnswers(class) ==
    [sql |-> Responded(SqlResponse(class, ColumnsOfQuery, DataRows(1))),
     info |-> Unasked, indices |-> Unasked, aliases |-> Unasked, ping |-> Unasked,
     search |-> Unasked, mapping |-> Unasked]

InitCatalog ==
    /\ \E c \in Configurations :
         \E queried \in BOOLEAN :
           LET out == execute(NewCursor(c[1], c[2]), op_select, OneRowAnswers(c[1]))
           IN  /\ conn = [class |-> c[1], v2 |-> c[2], closed |-> FALSE,
                          cursors |-> <<IF queried THEN out.self
                                        ELSE NewCursor(c[1], c[2])>>]
               /\ hist = <<IF queried
                           THEN Executed("Connection.cursor", out.self, out.exc, out)
                           ELSE NewHistory("Connection.cursor")>>
    /\ \E operation \in CatalogOperations :
         \E answers \in AnswersFor(conn.class, operation) :
           last = Given("execute", <<operation, answers>>)

CallExecuted(out, fresh) ==
    /\ conn' = [conn EXCEPT !.cursors[1] = out.self]
    /\ last' = Call("execute", 1, last.arg[2], out)
    /\ hist' = [hist EXCEPT ![1] = Executed(@.made, out.self, out.exc, fresh)]

CallExecute ==
    /\ last.op = "given"
    /\ last.arg[1] = "execute"
    /\ CallExecuted(execute(conn.cursors[1], last.arg[2][1], last.arg[2][2]),
                    execute(NewCursor(conn.class, conn.v2), last.arg[2][1],
                            last.arg[2][2]))

NextCatalog == CallExecute

SpecCatalog == InitCatalog /\ [][NextCatalog]_vars
\* _traverse_mapping on its own: `last` holds the mapping it is given, then the
\* call and the list it returns.  The cursor is an opendistro cursor, with or
\* without v2.

\* dicts of up to n items drawn from `items`: no key twice, in every order
DictsOf(items, n) ==
    {d \in SeqsUpTo(items, n) :
        \A i \in 1..Len(d) : \A j \in 1..Len(d) : i # j => d[i][1] # d[j][1]}

str_xkeyword == <<"x">> \o str_keyword
str_raw == <<"r", "a", "w">>
str_nested == <<"n", "e", "s", "t", "e", "d">>

\* The multi-fields a field may declare
SubFields ==
    {<<str_keyword, Metadata(Some(str_keyword), None, None)>>,
     <<str_raw, Metadata(Some(str_keyword), None, None)>>,
     <<str_xkeyword, Metadata(Some(str_text), None, None)>>}

\* A field of the top level that has no properties: a long or a text, or a
\* text with multi-fields
LeafFields ==
    {Metadata(Some(type), None, None) : type \in {str_long, str_text}}
    \cup {Metadata(Some(str_text), None, Some(fields)) :
              fields \in DictsOf(SubFields, MaxFields)}

\* A field inside an object: a keyword, a text with one multi-field, or an
\* object of one keyword
InnerFields ==
    {Metadata(Some(str_keyword), None, None),
     Metadata(Some(str_text), None,
              Some(<< <<str_keyword, Metadata(Some(str_keyword), None, None)>> >>)),
     Metadata(Some(str_text), None,
              Some(<< <<str_xkeyword, Metadata(Some(str_text), None, None)>> >>)),
     Metadata(None, Some(<< <<<<"c">>, Metadata(Some(str_keyword), None, None)>> >>),
              None)}

\* An object or nested field: its properties, and the type a nested field has
ObjectFields ==
    {Metadata(type, Some(properties), None) :
        type \in {None, Some(str_nested)},
        properties \in DictsOf({<<<<"b">>, m>> : m \in InnerFields}
                               \cup {<<str_keyword, m>> : m \in InnerFields},
                               MaxFields)}

\* The properties of an index, as the mapping API returns them: a field has
\* properties or a type, and only a field with a type has multi-fields
Mappings ==
    DictsOf({<<<<"a">>, m>> : m \in LeafFields \cup ObjectFields}
            \cup {<<<<"f">>, m>> : m \in LeafFields \cup ObjectFields},
            MaxFields)

InitMapping ==
    /\ \E v2 \in BOOLEAN :
           conn = [class |-> "opendistro", v2 |-> v2, closed |-> FALSE,
                   cursors |-> <<>>]
    /\ hist = <<>>
    /\ \E mapping \in Mappings : last = Given("_traverse_mapping", mapping)

CallTraverseMapping ==
    /\ last.op = "given"
    /\ last.arg[1] = "_traverse_mapping"
    /\ last' = Call("_traverse_mapping", 0, last.arg[2],
                    Return(None, _traverse_mapping(NewCursor(conn.class, conn.v2),
                                                   last.arg[2], None)))
    /\ UNCHANGED <<conn, hist>>

NextMapping == CallTraverseMapping

SpecMapping == InitMapping /\ [][NextMapping]_vars
----------------------------------------------------------------------------
\* es/basesqlalchemy.py, es/elastic/sqlalchemy.py, es/opendistro/sqlalchemy.py:
\* the reflection methods of the dialects.  connection.execute(query) of
\* SQLAlchemy runs cursor.execute(query) on a new cursor of the DBAPI
\* connection and gives the rows with the names of cursor.description as
\* attributes; an exception of the cursor ends the method.

str_column == <<"c", "o", "l", "u", "m", "n">>
str_type == <<"t", "y", "p", "e">>
str_mapping == <<"m", "a", "p", "p", "i", "n", "g">>
str_object == <<"o", "b", "j", "e", "c", "t">>
str_SHOW_COLUMNS_FROM ==
    <<"S", "H", "O", "W", " ", "C", "O", "L", "U", "M", "N", "S", " ", "F", "R", "O",
      "M", " ">>

\* BaseESDialect._not_supported_column_types
_not_supported_column_types == <<str_object, str_nested>>

\* get_type.type_map of es/basesqlalchemy.py: <<data type, class of sqlalchemy.types>>
sqlalchemy_type_map ==
    << <<<<"b", "y", "t", "e", "s">>, "LargeBinary">>,
       <<<<"b", "o", "o", "l", "e", "a", "n">>, "Boolean">>,
       <<<<"d", "a", "t", "e">>, "Date">>,
       <<<<"d", "a", "t", "e", "t", "i", "m", "e">>, "DateTime">>,
       <<<<"d", "o", "u", "b", "l", "e">>, "Numeric">>,
       <<str_text, "String">>,
       <<str_keyword, "String">>,
       <<<<"i", "n", "t", "e", "g", "e", "r">>, "Integer">>,
       <<<<"h", "a", "l", "f", "_", "f", "l", "o", "a", "t">>, "Float">>,
       <<<<"g", "e", "o", "_", "p", "o", "i", "n", "t">>, "String">>,
       <<str_nested, "String">>,
       <<str_object, "BLOB">>,
       <<str_long, "BigInteger">>,
       <<<<"f", "l", "o", "a", "t">>, "Float">>,
       <<<<"i", "p">>, "String">> >>

\* get_type of es/basesqlalchemy.py: a type the table does not hold is a String
sqlalchemy_get_type(data_type) ==
    IF IsNone(DictGet(sqlalchemy_type_map, data_type)) THEN "String"
    ELSE Val(DictGet(sqlalchemy_type_map, data_type))

\* row.<name> of a row of the result: the value under the column of the
\* description that has the name
RowAttr(description, row, name) ==
    row[CHOOSE k \in 1..Len(description) : description[k][1] = Some(name)]

\* x in a list
InList(x, l) == \E k \in 1..Len(l) : l[k] = x

\* The reflected column of a row of SHOW COLUMNS
ReflectedColumn(description, row) ==
    [name |-> RowAttr(description, row, str_column),
     type |-> sqlalchemy_get_type(RowAttr(description, row, str_mapping)),
     nullable |-> TRUE,
     default |-> None]

\* The comprehension that ends get_columns
ColumnsKept(description, rows, array_columns) ==
    LET Kept(row) ==
            /\ ~InList(RowAttr(description, row, str_mapping), _not_supported_column_types)
            /\ ~InList(RowAttr(description, row, str_column), array_columns)
        kept == SelectSeq(rows, Kept)
    IN  [k \in 1..Len(kept) |-> ReflectedColumn(description, kept[k])]

\* get_columns with the test of BaseESDialect.get_columns on the array columns:
\* len(array_columns_[0]) == 0
get_columns_of_base(shown, all_columns) ==
    LET array_columns_ == fetchall(shown.self)
        array_columns ==
            [k \in 1..Len(array_columns_.ret) |->
                RowAttr(shown.self.description, array_columns_.ret[k], str_name)]
        rows == list(all_columns.self)
    IN  IF shown.exc # NoExc THEN Outcome(None, shown.exc, None, shown.requests)
        ELSE IF array_columns_.exc # NoExc
        THEN Outcome(None, array_columns_.exc, None, shown.requests)
        ELSE IF Len(array_columns_.ret) = 0
        THEN Outcome(None, "IndexError", None, shown.requests)
        ELSE IF all_columns.exc # NoExc
        THEN Outcome(None, all_columns.exc, None, shown.requests \o all_columns.requests)
        ELSE IF rows.exc # NoExc
        THEN Outcome(None, rows.exc, None, shown.requests \o all_columns.requests)
        ELSE Outcome(None, NoExc,
                     ColumnsKept(all_columns.self.description, rows.ret, array_columns),
                     shown.requests \o all_columns.requests)

\* The body of get_columns, given the outcomes of its two connection.execute:
\* `shown` of SHOW ARRAY_COLUMNS FROM, `all_columns` of SHOW COLUMNS FROM
get_columns(shown, all_columns) ==
    LET array_columns_ == fetchall(shown.self)
        array_columns ==
            IF Len(array_columns_.ret) = 0 THEN <<>>
            ELSE [k \in 1..Len(array_columns_.ret) |->
                     RowAttr(shown.self.description, array_columns_.ret[k], str_name)]
        rows == list(all_columns.self)
    IN  IF shown.exc # NoExc THEN Outcome(None, shown.exc, None, shown.requests)
        ELSE IF array_columns_.exc # NoExc
        THEN Outcome(None, array_columns_.exc, None, shown.requests)
        ELSE IF all_columns.exc # NoExc
        THEN Outcome(None, all_columns.exc, None, shown.requests \o all_columns.requests)
        ELSE IF rows.exc # NoExc
        THEN Outcome(None, rows.exc, None, shown.requests \o all_columns.requests)
        ELSE Outcome(None, NoExc,
                     ColumnsKept(all_columns.self.description, rows.ret, array_columns),
                     shown.requests \o all_columns.requests)

\* ESDialect.get_columns of es/elastic/sqlalchemy.py
elastic_get_columns(table_name, answers) ==
    get_columns(execute(NewCursor("elastic", FALSE),
                        str_SHOW_ARRAY_COLUMNS_FROM \o table_name, answers),
                execute(NewCursor("elastic", FALSE),
                        str_SHOW_COLUMNS_FROM \o <<"\"">> \o table_name \o <<"\"">>,
                        answers))

\* The inputs of the reflection methods

\* The elements of s the mask keeps, in their order
RECURSIVE Keep(_, _)
Keep(s, mask) ==
    IF Len(s) = 0 THEN <<>>
    ELSE (IF mask[1] THEN <<Head(s)>> ELSE <<>>)
         \o Keep(Tail(s), [k \in 1..(Len(s) - 1) |-> mask[k + 1]])

Reverse(s) == [k \in 1..Len(s) |-> s[Len(s) + 1 - k]]

\* Every choice of elements of s, in the order of s or in the reverse order
Choices(s) ==
    {Keep(s, mask) : mask \in [1..Len(s) -> BOOLEAN]}
    \cup {Keep(Reverse(s), mask) : mask \in [1..Len(s) -> BOOLEAN]}

\* The columns of the response to SHOW COLUMNS
ColumnsOfShowColumns ==
    <<Column(Some(str_column), Some(str_keyword), None),
      Column(Some(str_type), Some(str_keyword), None),
      Column(Some(str_mapping), Some(str_keyword), None)>>

\* The rows SHOW COLUMNS may hold for the fields of the sampled documents:
\* <<column, type, mapping>>
ShowColumnsRows ==
    << <<<<"a">>, <<"V", "A", "R", "C", "H", "A", "R">>, str_text>>,
       <<<<"a", ".">> \o str_keyword, <<"V", "A", "R", "C", "H", "A", "R">>, str_keyword>>,
       <<<<"n">>, <<"B", "I", "G", "I", "N", "T">>, str_long>>,
       <<<<"o">>, <<"S", "T", "R", "U", "C", "T">>, str_nested>>,
       <<<<"o", ".", "k">>, <<"V", "A", "R", "C", "H", "A", "R">>, str_text>>,
       <<<<"d">>, <<"S", "T", "R", "U", "C", "T">>, str_object>>,
       <<<<"e">>, <<"B", "I", "G", "I", "N", "T">>, str_long>> >>

\* What the SQL endpoint answers to SHOW COLUMNS FROM "t"
ShowColumnsAnswers ==
    {Raised("ConnectionError")}
    \cup {Responded(SqlResponse("elastic", ColumnsOfShowColumns, rows)) :
              rows \in Choices(ShowColumnsRows)}

\* The answers of the store during one reflection method
\* The comprehension without its condition
AllNames(description, rows, attr) ==
    [k \in 1..Len(rows) |-> RowAttr(description, rows[k], attr)]

\* [table.<attr> for table in result if table.<attr>[0] != "."]
VisibleNames(description, rows, attr) ==
    LET names == [k \in 1..Len(rows) |-> RowAttr(description, rows[k], attr)]
        Shown(name) == name[1] # "."
    IN  SelectSeq(names, Shown)

\* The names of the rows of `result`, the outcome of connection.execute(query)
NamesOf(result, attr) ==
    LET rows == list(result.self)
    IN  IF result.exc # NoExc THEN Outcome(None, result.exc, None, result.requests)
        ELSE Outcome(None, NoExc, VisibleNames(result.self.description, rows.ret, attr),
                     result.requests)

\* ESDialect.get_table_names of es/elastic/sqlalchemy.py and of
\* es/opendistro/sqlalchemy.py
get_table_names(class, v2, answers) ==
    NamesOf(execute(NewCursor(class, v2), op_SHOW_VALID_TABLES, answers),
            IF class = "opendistro" THEN str_TABLE_NAME ELSE str_name)

\* ESDialect.get_view_names of es/elastic/sqlalchemy.py and of
\* es/opendistro/sqlalchemy.py
get_view_names(class, v2, answers) ==
    NamesOf(execute(NewCursor(class, v2), op_SHOW_VALID_VIEWS, answers),
            IF class = "opendistro" THEN str_VIEW_NAME ELSE str_name)

\* Names of hidden indices and of a hidden alias
name_hidden == <<".", "k">>
name_hidden_alias == <<".", "a">>

\* What the SQL endpoint answers to the listing of a store with hidden indices
HiddenListingAnswers(class) ==
    IF class = "opendistro"
    THEN {Raised("ConnectionError"),
          Responded(SqlResponse(class,
              <<Column(Some(<<"T", "A", "B", "L", "E", "_", "C", "A", "T">>),
                       Some(str_keyword), None),
                Column(Some(<<"T", "A", "B", "L", "E", "_", "S", "C", "H", "E", "M">>),
                       Some(str_keyword), None),
                Column(Some(str_TABLE_NAME), Some(str_keyword), None)>>,
              << <<<<"e", "s">>, <<>>, name_hidden>>, <<<<"e", "s">>, <<>>, name_t2>>,
                 <<<<"e", "s">>, <<>>, name_t1>> >>))}
    ELSE {Raised("ConnectionError"),
          Responded(SqlResponse(class,
              <<Column(Some(str_name), Some(str_keyword), None),
                Column(Some(<<"t", "y", "p", "e">>), Some(str_keyword), None)>>,
              << <<name_hidden, str_TABLE>>, <<name_t2, str_TABLE>>,
                 <<name_hidden, str_BASE_TABLE>>, <<name_t1, str_BASE_TABLE>>,
                 <<name_t1, str_TABLE>>,
                 <<name_v1, str_VIEW>>, <<name_hidden_alias, str_VIEW>>,
                 <<name_t2, str_VIEW>> >>))}

\* es.cat.aliases(format="json") of a store with a hidden alias
HiddenAliasesAnswers ==
    {Raised("ConnectionError"),
     Responded(<<[alias |-> name_v1, index |-> name_t1],
                 [alias |-> name_hidden_alias, index |-> name_t1],
                 [alias |-> name_t2, index |-> name_hidden]>>)}

DialectAnswers(sql, indices, info, aliases, search) ==
    [sql |-> sql, info |-> info, indices |-> indices, aliases |-> aliases,
     ping |-> Unasked, search |-> search, mapping |-> Unasked]

\* The answers a listing of the dialect may meet
NamesAnswers(class, function) ==
    IF function = "get_table_names"
    THEN {DialectAnswers(sql, indices, info, Unasked, Unasked) :
             sql \in HiddenListingAnswers(class), indices \in IndicesAnswers,
             info \in IF class = "elastic" THEN InfoAnswers ELSE {Unasked}}
    ELSE IF class = "elastic"
    THEN {DialectAnswers(sql, indices, Unasked, Unasked, Unasked) :
             sql \in HiddenListingAnswers(class), indices \in IndicesAnswers}
    ELSE {DialectAnswers(Unasked, Unasked, Unasked, aliases, Unasked) :
             aliases \in HiddenAliasesAnswers}

InitDialect ==
    /\ \E c \in Configurations :
           conn = [class |-> c[1], v2 |-> c[2], closed |-> FALSE, cursors |-> <<>>]
    /\ hist = <<>>
    /\ \/ /\ conn.class = "elastic"
          /\ \E sql \in ShowColumnsAnswers, search \in SearchAnswers :
                 last = Given("get_columns",
                              <<<<"t">>,
                                DialectAnswers(sql, Unasked, Unasked, Unasked, search)>>)
       \/ \E function \in {"get_table_names", "get_view_names"} :
              \E answers \in NamesAnswers(conn.class, function) :
                  last = Given(function, <<None, answers>>)

CallGetColumns ==
    /\ last.op = "given"
    /\ last.arg[1] = "get_columns"
    /\ last' = Call("get_columns", 0, last.arg[2],
                    elastic_get_columns(last.arg[2][1], last.arg[2][2]))
    /\ UNCHANGED <<conn, hist>>

CallGetNames ==
    /\ last.op = "given"
    /\ last.arg[1] \in {"get_table_names", "get_view_names"}
    /\ last' = Call(last.arg[1], 0, last.arg[2],
                    IF last.arg[1] = "get_table_names"
                    THEN get_table_names(conn.class, conn.v2, last.arg[2][2])
                    ELSE get_view_names(conn.class, conn.v2, last.arg[2][2]))
    /\ UNCHANGED <<conn, hist>>

NextDialect == CallGetColumns \/ CallGetNames


SpecDialect == InitDialect /\ [][NextDialect]_vars
\* The SQL path of execute with the text of the exception it raises: `last`
\* holds the statement and the answer of the SQL endpoint, then the call, its
\* exception and the message of the exception.

str_Error_connecting ==
    <<"E", "r", "r", "o", "r", " ", "c", "o", "n", "n", "e", "c", "t", "i", "n", "g",
      " ", "t", "o", " ", "E", "l", "a", "s", "t", "i", "c", "s", "e", "a", "r", "c",
      "h">>
str_Missing_columns ==
    <<"M", "i", "s", "s", "i", "n", "g", " ", "c", "o", "l", "u", "m", "n", "s", " ",
      "f", "i", "e", "l", "d", ",", " ", "m", "a", "y", "b", "e", " ", "i", "t", "'",
      "s", " ">>
str_an_opendistro_sql_ep ==
    <<"a", "n", " ", "o", "p", "e", "n", "d", "i", "s", "t", "r", "o", " ", "s", "q",
      "l", " ", "e", "p">>
str_an_elastic_sql_ep ==
    <<"a", "n", " ", "e", "l", "a", "s", "t", "i", "c", " ", "s", "q", "l", " ", "e",
      "p">>

\* What the store supplies with a rejected query (ex.error, and
\* ex.info["error"]["reason"]) and in an error object (error.reason,
\* error.details)
upstream_error ==
    <<"p", "a", "r", "s", "i", "n", "g", "_", "e", "x", "c", "e", "p", "t", "i", "o",
      "n">>
upstream_reason ==
    <<"l", "i", "n", "e", " ", "1", ":", "8", ":", " ", "m", "i", "s", "m", "a", "t",
      "c", "h", "e", "d", " ", "i", "n", "p", "u", "t">>
upstream_details ==
    <<"n", "o", " ", "s", "u", "c", "h", " ", "i", "n", "d", "e", "x">>

\* The text of the exception the SQL path of execute raises: the f-strings of
\* elastic_query, the literal of execute, and the key of the KeyError of
\* get_type
QueryMessage(self, query, answers) ==
    IF answers.sql.kind = "ConnectionError" THEN str_Error_connecting
    ELSE IF answers.sql.kind = "RequestError"
    THEN <<"E", "r", "r", "o", "r", " ", "(">> \o upstream_error \o <<")", ":", " ">>
         \o upstream_reason
    ELSE IF answers.sql.response.error
    THEN <<"(">> \o upstream_reason \o <<")", ":", " ">> \o upstream_details
    ELSE IF (IF self.class = "opendistro" THEN answers.sql.response.schema
             ELSE answers.sql.response.columns) = None
    THEN str_Missing_columns
         \o (IF self.class = "opendistro" THEN str_an_elastic_sql_ep
             ELSE str_an_opendistro_sql_ep)
    ELSE LET columns == Val(IF self.class = "opendistro" THEN answers.sql.response.schema
                            ELSE answers.sql.response.columns)
             unknown == {i \in 1..Len(columns) : get_type(columns[i].type).exc # NoExc}
             first == CHOOSE i \in unknown : \A j \in unknown : i <= j
         IN  <<"'">> \o Lower(Val(columns[first].type)) \o <<"'">>

\* The statements executed: none is a catalog command of either class
Queries == {op_select, Lower(op_select), Capitalized(op_select)}

InitQuery ==
    /\ \E c \in Configurations :
           conn = [class |-> c[1], v2 |-> c[2], closed |-> FALSE, cursors |-> <<>>]
    /\ hist = <<>>
    /\ \E operation \in Queries :
           \E sql \in SqlQueryAnswers(conn.class) :
               last = Given("execute",
                            <<operation,
                              DialectAnswers(sql, Unasked, Unasked, Unasked, Unasked)>>)

\* cursor.execute(operation) on a new cursor; the message is kept with the
\* exception
CallQuery ==
    /\ last.op = "given"
    /\ last.arg[1] = "execute"
    /\ last' = [Call("query", 0, last.arg[2],
                     execute(NewCursor(conn.class, conn.v2), last.arg[2][1],
                             last.arg[2][2]))
                   EXCEPT !.ret =
                       IF @ = None /\ execute(NewCursor(conn.class, conn.v2),
                                              last.arg[2][1], last.arg[2][2]).exc # NoExc
                       THEN Some(QueryMessage(NewCursor(conn.class, conn.v2),
                                              last.arg[2][1], last.arg[2][2]))
                       ELSE @]
    /\ UNCHANGED <<conn, hist>>

NextQuery == CallQuery

SpecQuery == InitQuery /\ [][NextQuery]_vars
\* execute with parameters: `last` holds the operation, the parameters and the
\* answers of the store, then the call and its outcome.

\* Cursor.execute(operation, parameters) of es/elastic/api.py, with
\* BaseCursor.custom_sql_to_method_dispatcher inlined: the method the table
\* names for command.lower() answers, and the cursor it returns is true.
elastic_execute_parameters(self, operation, parameters, answers) ==
    LET method_name == DictGet(elastic_custom_sql_to_method, Lower(operation))
        query == apply_parameters(operation, parameters)
    IN  IF check_closed(self) THEN Raise(self, "Error")
    ELSE IF ~IsNone(method_name) THEN elastic_call(self, Val(method_name), answers)
    ELSE IF ReMatch(str_SHOW_ARRAY_COLUMNS_FROM, operation)
    THEN get_array_type_columns(self, ReGroup1(str_SHOW_ARRAY_COLUMNS_FROM, operation),
                                answers)
    ELSE IF query.exc # NoExc THEN Raise(self, query.exc)
    ELSE ExecuteQuery(self, query.ret, answers)

\* Cursor.execute(operation, parameters) of es/opendistro/api.py, with
\* BaseCursor.custom_sql_to_method_dispatcher inlined
opendistro_execute_parameters(self, operation, parameters, answers) ==
    LET method_name == DictGet(opendistro_custom_sql_to_method, Lower(operation))
        query == apply_parameters(operation, parameters)
    IN  IF check_closed(self) THEN Raise(self, "Error")
    ELSE IF ~IsNone(method_name) THEN opendistro_call(self, Val(method_name), answers)
    ELSE IF ReMatch(str_SHOW_VALID_COLUMNS_FROM, operation)
    THEN get_valid_columns(self, ReGroup1(str_SHOW_VALID_COLUMNS_FROM, operation),
                           answers)
    ELSE IF query.exc # NoExc THEN Raise(self, query.exc)
    ELSE ExecuteQuery(self, query.ret, answers)

\* execute that binds the parameters before it looks at the operation
execute_bound_first(self, operation, parameters, answers) ==
    IF apply_parameters(operation, parameters).exc # NoExc
    THEN Raise(self, apply_parameters(operation, parameters).exc)
    ELSE execute(self, apply_parameters(operation, parameters).ret, answers)

\* cursor.execute(operation, parameters) of either class
execute_parameters(self, operation, parameters, answers) ==
    IF self.class = "opendistro"
    THEN opendistro_execute_parameters(self, operation, parameters, answers)
    ELSE elastic_execute_parameters(self, operation, parameters, answers)

\* The operations executed with parameters: the commands of the tables, the
\* commands with a table name, each with a placeholder too, and statements
DispatchOperations ==
    {op_SHOW_VALID_TABLES, Lower(op_SHOW_VALID_VIEWS), Capitalized(op_SELECT_1),
     op_SHOW_ARRAY_COLUMNS, op_SHOW_VALID_COLUMNS,
     str_SHOW_ARRAY_COLUMNS_FROM \o Placeholder(str_flag),
     str_SHOW_VALID_COLUMNS_FROM \o Placeholder(str_flag),
     Lower(op_SHOW_ARRAY_COLUMNS),
     op_select,
     str_x_eq \o Placeholder(str_flag),
     Placeholder(str_name) \o <<" ", "=", " ", "1">>,
     <<"%", "=">>}

DispatchParameters ==
    {None} \cup {Some(<< <<str_flag, v>> >>) :
                    v \in {PyBool(TRUE), PyStr(<<"a">>), PyInt(2)}}

InitDispatch ==
    /\ \E c \in Configurations :
           conn = [class |-> c[1], v2 |-> c[2], closed |-> FALSE, cursors |-> <<>>]
    /\ hist = <<>>
    /\ \E operation \in DispatchOperations, parameters \in DispatchParameters :
           \E answers \in AnswersFor(conn.class, operation) :
               last = Given("execute", <<operation, parameters, answers>>)

CallExecuteParameters ==
    /\ last.op = "given"
    /\ last.arg[1] = "execute"
    /\ last' = Call("execute", 0, last.arg[2],
                    execute_parameters(NewCursor(conn.class, conn.v2), last.arg[2][1],
                                       last.arg[2][2], last.arg[2][3]))
    /\ UNCHANGED <<conn, hist>>

NextDispatch == CallExecuteParameters

SpecDispatch == InitDispatch /\ [][NextDispatch]_vars
\* es/opendistro/api.py: Connection.__init__.  `last` holds user, password and
\* the keyword arguments, then the call and the Elasticsearch client it built.

\* The keyword arguments that select the authentication; kwargs maps each to
\* its value, or to None when it is not passed
AuthOptions == {"aws_keys", "aws_region", "aws_profile"}

\* key in kwargs
InKwargs(key, kwargs) == ~IsNone(kwargs[key])

\* kwargs.pop(key)
Pop(kwargs, key) == [kwargs EXCEPT ![key] = None]

\* Elasticsearch(url, http_auth=..., connection_class=..., **kwargs); http_auth
\* and connection_class are None when they are not passed
Elasticsearch(http_auth, connection_class, kwargs) ==
    [http_auth |-> http_auth, connection_class |-> connection_class, kwargs |-> kwargs]

\* Connection._aws_auth
_aws_auth(aws_access_key, aws_secret_key, region) ==
    <<"AWS4Auth", aws_access_key, aws_secret_key, region, "es">>

\* Connection._aws_auth_profile: the keys are those of the boto3 session
_aws_auth_profile(region) ==
    <<"AWS4Auth", "credentials.access_key", "credentials.secret_key", region, "es">>

\* Connection.__init__: the client assigned to self.es
opendistro_Connection(user, password, kwargs) ==
    IF StrTruthy(user) /\ StrTruthy(password) /\ ~InKwargs("aws_keys", kwargs)
    THEN Elasticsearch(Some(<<Val(user), Val(password)>>), None, kwargs)
    ELSE IF /\ StrTruthy(user) /\ StrTruthy(password)
            /\ InKwargs("aws_keys", kwargs) /\ InKwargs("aws_region", kwargs)
    THEN Elasticsearch(Some(_aws_auth(Val(user), Val(password),
                                      Val(kwargs["aws_region"]))),
                       Some("RequestsHttpConnection"),
                       Pop(Pop(kwargs, "aws_keys"), "aws_region"))
    ELSE IF InKwargs("aws_profile", kwargs)
    THEN Elasticsearch(Some(_aws_auth_profile(Val(kwargs["aws_profile"]))),
                       Some("RequestsHttpConnection"), kwargs)
    ELSE Elasticsearch(None, None, kwargs)

\* user and password as a caller passes them: omitted, empty, or a text
Credentials == {None, Some(<<>>), Some(<<"u">>), Some(<<"p", "w">>)}

\* The keyword arguments of a connection string
Kwargs ==
    {kwargs \in [AuthOptions -> {None, Some(<<"1">>), Some(<<"r">>)}] :
        /\ kwargs["aws_keys"] \in {None, Some(<<"1">>)}
        /\ kwargs["aws_region"] \in {None, Some(<<"r">>)}
        /\ kwargs["aws_profile"] \in {None, Some(<<"r">>)}}

InitConnect ==
    /\ conn = [class |-> "opendistro", v2 |-> FALSE, closed |-> FALSE, cursors |-> <<>>]
    /\ hist = <<>>
    /\ \E user \in Credentials, password \in Credentials, kwargs \in Kwargs :
           last = Given("Connection", <<user, password, kwargs>>)

CallConnection ==
    /\ last.op = "given"
    /\ last.arg[1] = "Connection"
    /\ last' = Call("Connection", 0, last.arg[2],
                    Return(None, opendistro_Connection(last.arg[2][1], last.arg[2][2],
                                                       last.arg[2][3])))
    /\ UNCHANGED <<conn, hist>>

NextConnect == CallConnection

SpecConnect == InitConnect /\ [][NextConnect]_vars
\* es/db.py: the binder of the legacy module.  `last` holds the arguments, then
\* the call and its outcome.

\* escape(value) of es/db.py: the test for int and float comes before the test
\* for bool, and a bool is an int
RECURSIVE db_escape(_)
db_escape(value) ==
    LET escaped == [i \in 1..Len(value.elems) |-> db_escape(value.elems[i])]
        failed == {i \in 1..Len(escaped) : escaped[i].exc # NoExc}
    IN  IF value = PyStr(<<"*">>) THEN Return(None, value)
        ELSE IF value.type = "str"
        THEN Return(None, PyStr(<<"'">> \o Replace(value.chars, <<"'">>, <<"'", "'">>)
                                \o <<"'">>))
        ELSE IF value.type \in {"int", "float", "bool"} THEN Return(None, value)
        ELSE IF value.type \in {"list", "tuple"}
        THEN IF failed # {}
             THEN Raise(None, escaped[CHOOSE i \in failed : \A j \in failed : i <= j].exc)
             ELSE IF \E i \in 1..Len(escaped) : escaped[i].ret.type # "str"
             THEN Raise(None, "TypeError")
             ELSE Return(None, PyStr(Join(<<",", " ">>,
                                          [i \in 1..Len(escaped) |-> escaped[i].ret.chars])))
        ELSE Return(None, PyNone)

\* apply_parameters(operation, parameters) of es/db.py: parameters.items()
\* raises AttributeError on None
db_apply_parameters(operation, parameters) ==
    LET mapping == Val(parameters)
        escaped == [i \in 1..Len(mapping) |-> db_escape(mapping[i][2])]
        failed == {i \in 1..Len(escaped) : escaped[i].exc # NoExc}
    IN  IF IsNone(parameters) THEN Raise(None, "AttributeError")
        ELSE IF failed # {}
        THEN Raise(None, escaped[CHOOSE i \in failed : \A j \in failed : i <= j].exc)
        ELSE FormatFrom(operation, 1,
                        [i \in 1..Len(mapping) |-> <<mapping[i][1], escaped[i].ret>>])

InitLegacy ==
    /\ \E c \in Configurations :
           conn = [class |-> c[1], v2 |-> c[2], closed |-> FALSE, cursors |-> <<>>]
    /\ hist = <<>>
    /\ \/ \E value \in Values : last = Given("escape", value)
       \/ \E operation \in Statements, parameters \in Parameters :
              last = Given("apply_parameters", <<operation, parameters>>)

CallDbEscape ==
    /\ last.op = "given"
    /\ last.arg[1] = "escape"
    /\ last' = Call("db.escape", 0, last.arg[2], db_escape(last.arg[2]))
    /\ UNCHANGED <<conn, hist>>

CallDbApplyParameters ==
    /\ last.op = "given"
    /\ last.arg[1] = "apply_parameters"
    /\ last' = Call("db.apply_parameters", 0, last.arg[2],
                    db_apply_parameters(last.arg[2][1], last.arg[2][2]))
    /\ UNCHANGED <<conn, hist>>

NextLegacy == CallDbEscape \/ CallDbApplyParameters

SpecLegacy == InitLegacy /\ [][NextLegacy]_vars







----------------------------------------------------------------------------
\* The properties

\* The row buffer of cursor i
Buffer(i) == Val(conn.cursors[i]._results)

\* The calls whose outcome is the rows of cursor i or their number
FetchingCalls == {"fetchone", "fetchmany", "fetchall", "rowcount"}

\* Every call on a cursor that C3 names
CursorCalls ==
    {"execute", "executemany", "fetchone", "fetchmany", "fetchall", "rowcount",
     "__iter__", "__next__"}

ConnectionCalls ==
    {"Connection.cursor", "Connection.execute", "Connection.commit",
     "Connection.close", "Connection.__enter__", "Connection.__exit__"}

\* C1: on a cursor made by Connection.cursor() on which execute has never been
\* called, fetchone, fetchmany, fetchall and rowcount raise an error instead
\* of returning a value.
C1_FetchBeforeExecuteRaises ==
    (/\ last.op \in FetchingCalls
     /\ hist[last.cur].made = "Connection.cursor"
     /\ ~hist[last.cur].executed)
    => last.exc # NoExc

\* C2: for the connection and for a cursor, close() on an open object returns
\* and leaves it closed; close() on a closed object raises an Error and leaves
\* it closed, and a closed connection never opens again.
C2_SecondCloseRaises ==
    [][/\ conn.closed => conn'.closed
       /\ last'.op = "Connection.close" =>
            /\ conn'.closed
            /\ ~conn.closed => last'.exc = NoExc
            /\ conn.closed => IsInstance(last'.exc, "Error")
       /\ last'.op = "close" =>
            /\ conn'.cursors[last'.cur].closed
            /\ ~conn.cursors[last'.cur].closed => last'.exc = NoExc
            /\ conn.cursors[last'.cur].closed => IsInstance(last'.exc, "Error")]_vars

\* close() raised on a cursor that its own close() had closed: the connection
\* is still open
C2_Witness ==
    /\ last.op = "close"
    /\ last.exc = "Error"
    /\ conn.cursors[last.cur].closed
    /\ ~conn.closed

\* C3: a closed cursor stays closed, whatever is called next; execute,
\* executemany, fetchone, fetchmany, fetchall, rowcount, __iter__ and __next__
\* on it raise an Error and make no request to the store; its description and
\* its row buffer never change.
C3_ClosedCursorStaysClosed ==
    [][\A i \in Cursors :
         conn.cursors[i].closed =>
           /\ conn'.cursors[i].closed
           /\ conn'.cursors[i].description = conn.cursors[i].description
           /\ conn'.cursors[i]._results = conn.cursors[i]._results
           /\ (last'.cur = i /\ last'.op \in CursorCalls) =>
                /\ IsInstance(last'.exc, "Error")
                /\ last'.requests = <<>>]_vars

\* execute raised on a closed cursor that holds a description and rows
C3_Witness ==
    /\ last.op = "execute"
    /\ last.exc = "Error"
    /\ last.requests = <<>>
    /\ conn.cursors[last.cur].closed
    /\ conn.cursors[last.cur].description # <<>>
    /\ Buffer(last.cur) # <<>>

\* C4: Connection.close() on an open connection returns without raising,
\* whichever of its cursors were closed before, and from then on every cursor
\* the connection's cursor() or execute() has created is closed; no cursor
\* ever leaves the connection's list.
C4_ConnectionCloseClosesCursors ==
    [][/\ Len(conn'.cursors) >= Len(conn.cursors)
       /\ (last'.op = "Connection.close" /\ ~conn.closed) => last'.exc = NoExc
       /\ conn'.closed => \A i \in 1..Len(conn'.cursors) : conn'.cursors[i].closed]_vars

\* Connection.close() returned on a connection with MaxCursors cursors: one
\* that execute() created and close() had closed, one that cursor() created
\* and that was open
C4_Witness ==
    /\ last.op = "Connection.close"
    /\ last.exc = NoExc
    /\ Len(conn.cursors) = MaxCursors
    /\ \A i \in Cursors : conn.cursors[i].closed
    /\ \E i \in Cursors : last.arg[i] /\ hist[i].made = "Connection.execute"
    /\ \E i \in Cursors : ~last.arg[i] /\ hist[i].made = "Connection.cursor"

\* C5: on a closed connection cursor(), execute(), commit() and close() (and
\* __enter__, __exit__) raise an Error, and the connection's cursor list stays
\* as it is.
C5_ClosedConnectionRaises ==
    [][conn.closed =>
         /\ Len(conn'.cursors) = Len(conn.cursors)
         /\ last'.op \in ConnectionCalls =>
              /\ IsInstance(last'.exc, "Error")
              /\ last'.cur = 0]_vars

\* execute() raised on a closed connection that has one cursor
C5_Witness ==
    /\ last.op = "Connection.execute"
    /\ last.exc = "Error"
    /\ conn.closed
    /\ Len(conn.cursors) = 1

\* The rows of the last execute on cursor i that no call has returned since
NotYetFetched(h) == SliceFrom(h.rows, Len(h.fetched))

\* C6: on an open cursor whose last execute returned and produced N rows (the
\* rows a new cursor holds after the same execute), rowcount is N less the
\* number of rows the fetch calls have returned since; it is 0 when N is 0.
C6_RowcountIsRowsNotFetched ==
    (/\ last.op = "rowcount"
     /\ ~conn.cursors[last.cur].closed
     /\ ~IsNone(hist[last.cur].produced))
    => /\ last.exc = NoExc
       /\ last.ret = Some(Len(Val(hist[last.cur].produced))
                          - Len(hist[last.cur].fetched))

\* C7: on an open cursor fetchall() returns the rows not yet fetched, in
\* order, and leaves the buffer empty; while the buffer is empty fetchall()
\* returns [], fetchone() returns None and rowcount is 0, and only execute
\* fills the buffer again.
C7_FetchallDrains ==
    [][\A i \in Cursors :
         (~conn.cursors[i].closed /\ last'.cur = i) =>
           /\ last'.op = "fetchall" =>
                /\ last'.exc = NoExc
                /\ last'.ret = NotYetFetched(hist[i])
                /\ Val(conn'.cursors[i]._results) = <<>>
           /\ Buffer(i) = <<>> =>
                /\ last'.op = "fetchall" => last'.ret = <<>>
                /\ last'.op = "fetchone" => last'.ret = None
                /\ last'.op = "rowcount" => last'.ret = Some(0)
                /\ last'.op # "execute" => Val(conn'.cursors[i]._results) = <<>>]_vars

\* fetchall() returned the rest of a result of which a row had been fetched
\* before, and left the buffer empty
C7_Witness ==
    /\ last.op = "fetchall"
    /\ last.exc = NoExc
    /\ Len(last.ret) >= 1
    /\ Len(hist[last.cur].fetched) > Len(last.ret)
    /\ hist[last.cur].fetched = hist[last.cur].rows
    /\ Buffer(last.cur) = <<>>

\* fetchmany(size) on the cursor again and again until it returns [] or
\* raises, at most `calls` times (one more than the rows in the buffer, so
\* that the call that returns [] is made): the chunks returned
RECURSIVE FetchmanyUntilEmpty(_, _, _)
FetchmanyUntilEmpty(self, size, calls) ==
    LET out == fetchmany(self, size)
    IN  IF calls = 0 \/ out.exc # NoExc \/ out.ret = <<>> THEN <<>>
        ELSE <<out.ret>> \o FetchmanyUntilEmpty(out.self, size, calls - 1)

RECURSIVE Concatenation(_)
Concatenation(chunks) ==
    IF chunks = <<>> THEN <<>> ELSE Head(chunks) \o Concatenation(Tail(chunks))

\* The chunks are those of fetchmany with size k over the rows `produced`
ChunksOf(chunks, k, produced) ==
    /\ \A c \in 1..Len(chunks) :
         /\ c < Len(chunks) => Len(chunks[c]) = k
         /\ Len(chunks[c]) \in 1..k
    /\ \A c, d \in 1..Len(chunks) :
         c # d => \A x \in 1..Len(chunks[c]) : \A y \in 1..Len(chunks[d]) :
                      chunks[c][x] # chunks[d][y]
    /\ Concatenation(chunks) = produced

\* C8: after an execute that returned, for every k >= 1 given to fetchmany and
\* for the arraysize taken when the size is omitted, the chunks fetchmany
\* returns until it returns [] are pairwise disjoint, of length k except
\* possibly the last, and their concatenation is the list of rows a new
\* cursor holds, and its fetchall() returns, after the same execute.
C8_FetchmanyChunks ==
    (/\ last.op \in {"execute", "Connection.execute"}
     /\ last.exc = NoExc)
    => /\ \A k \in 1..(MaxRows + 1) :
            ChunksOf(FetchmanyUntilEmpty(conn.cursors[last.cur], Some(k),
                                         Len(Buffer(last.cur)) + 1),
                     k, Val(hist[last.cur].produced))
       /\ ChunksOf(FetchmanyUntilEmpty(conn.cursors[last.cur], None,
                                       Len(Buffer(last.cur)) + 1),
                   conn.cursors[last.cur].arraysize, Val(hist[last.cur].produced))

\* C9: on an open cursor after execute, fetchmany(n) with an explicit n >= 0
\* does not raise and returns at most n rows.
C9_FetchmanyAtMostRequested ==
    (/\ last.op = "fetchmany"
     /\ ~IsNone(last.arg)
     /\ hist[last.cur].executed
     /\ ~conn.cursors[last.cur].closed)
    => (Val(last.arg) >= 0 => last.exc = NoExc /\ Len(last.ret) <= Val(last.arg))

\* C10: for every cursor, the rows the fetch calls have returned since the
\* last execute, in the order returned, followed by the rows in the buffer,
\* are the rows the buffer held when that execute ended; fetchone() on an
\* open cursor returns the first of these not yet returned, and None when
\* all have been returned.
C10_RowsInOrderOnce ==
    [][/\ \A i \in 1..Len(conn'.cursors) :
            hist'[i].fetched \o Val(conn'.cursors[i]._results) = hist'[i].rows
       /\ \A i \in Cursors :
            (~conn.cursors[i].closed /\ last'.cur = i /\ last'.op = "fetchone") =>
              /\ last'.exc = NoExc
              /\ last'.ret = IF NotYetFetched(hist[i]) = <<>> THEN None
                             ELSE Some(Head(NotYetFetched(hist[i])))]_vars

\* fetchone() returned the last of MaxRows rows, the others returned before
C10_Witness ==
    /\ last.op = "fetchone"
    /\ last.exc = NoExc
    /\ Len(hist[last.cur].rows) = MaxRows
    /\ hist[last.cur].fetched = hist[last.cur].rows
    /\ last.ret = Some(hist[last.cur].rows[MaxRows])

\* fetchone() on the cursor again and again until it returns None or raises,
\* at most `calls` times: the rows returned
RECURSIVE FetchoneUntilNone(_, _)
FetchoneUntilNone(self, calls) ==
    LET out == fetchone(self)
    IN  IF calls = 0 \/ out.exc # NoExc \/ IsNone(out.ret) THEN <<>>
        ELSE <<Val(out.ret)>> \o FetchoneUntilNone(out.self, calls - 1)

C12_ExecuteReplacesResult ==
    \A i \in Cursors :
        (/\ last.cur = i
         /\ last.op \in {"execute", "Connection.execute"}
         /\ last.exc = NoExc)
        => /\ Buffer(i) = Val(hist[i].produced)
           /\ conn.cursors[i].description = hist[i].described

\* C13: in every state, also the one an execute that raised leaves, every
\* buffered row of a cursor has as many values as its description has columns.
C13_RowsAlignedWithDescription ==
    \A i \in Cursors :
        \A k \in 1..Len(Buffer(i)) :
            Len(Buffer(i)[k]) = Len(conn.cursors[i].description)

\* The exceptions execute raises for a transport failure or a rejected query
\* (OperationalError, ProgrammingError), an error object in the response
\* (ProgrammingError) and a response without its columns (DataError)
QueryFailures == {"OperationalError", "ProgrammingError", "DataError"}

\* C14: when execute raises for a transport failure, a rejected query, an
\* error object in the response or a missing columns field, the cursor has no
\* description afterwards and no row to fetch.
C14_FailedExecuteClears ==
    \A i \in Cursors :
        (/\ last.cur = i
         /\ last.op \in {"execute", "Connection.execute"}
         /\ last.exc \in QueryFailures)
        => /\ conn.cursors[i].description = <<>>
           /\ Buffer(i) = <<>>

\* C15: when execute on a cursor raises, for any reason, the description and
\* the row buffer of the cursor are what they were before the call.
C15_FailedExecuteKeepsResult ==
    [][\A i \in Cursors :
         (/\ last'.cur = i
          /\ last'.op = "execute"
          /\ last'.exc # NoExc)
         => /\ conn'.cursors[i].description = conn.cursors[i].description
            /\ conn'.cursors[i]._results = conn.cursors[i]._results]_vars

\* C16: executemany on an open cursor raises NotSupportedError, sends no
\* request to the store, and leaves the cursor (its description, row buffer
\* and closed flag) and the connection as they were.
C16_ExecutemanyNotSupported ==
    [][\A i \in Cursors :
         (/\ last'.cur = i
          /\ last'.op = "executemany"
          /\ ~conn.cursors[i].closed)
         => /\ last'.exc = "NotSupportedError"
            /\ last'.requests = <<>>
            /\ conn'.cursors[i].description = conn.cursors[i].description
            /\ conn'.cursors[i]._results = conn.cursors[i]._results
            /\ conn'.cursors[i].closed = conn.cursors[i].closed
            /\ conn' = conn]_vars

\* executemany raised NotSupportedError on an open cursor that holds the
\* description and a row of a query
C16_Witness ==
    /\ last.op = "executemany"
    /\ last.exc = "NotSupportedError"
    /\ ~conn.cursors[last.cur].closed
    /\ conn.cursors[last.cur].description # <<>>
    /\ Buffer(last.cur) # <<>>

\* C17: get_description_from_columns raises DataError, and no other
\* exception, when the type of one of the columns is a str that is no key of
\* get_type's table (every type being a str).
C17_UnknownTypeRaisesDataError ==
    (/\ last.op = "get_description_from_columns"
     /\ \A i \in 1..Len(last.arg) : ~IsNone(last.arg[i].type)
     /\ \E i \in 1..Len(last.arg) : Lower(Val(last.arg[i].type)) \notin TypeKeys)
    => last.exc = "DataError"

\* The format holds %(key)s at position k and no other %
OnlyPlaceholderAt(format, k, key) ==
    /\ k + Len(Placeholder(key)) - 1 <= Len(format)
    /\ SubSeq(format, k, k + Len(Placeholder(key)) - 1) = Placeholder(key)
    /\ \A l \in 1..Len(format) : format[l] = "%" => l = k

\* The value is a str, a number, a bool or None: no list or tuple
IsScalar(value) == value.type \notin {"list", "tuple"}

\* C18: escape renders the bool True as TRUE and False as FALSE, unquoted;
\* and apply_parameters, for every dict of parameters that binds a key to a
\* bool and every operation with %(key)s as its only placeholder, returns the
\* operation with TRUE or FALSE in the place of %(key)s whenever it returns,
\* which it does when no parameter is a list or tuple.
C18_BoolRendersAsKeyword ==
    /\ (last.op = "escape" /\ last.arg.type = "bool")
       => /\ last.exc = NoExc
          /\ last.ret = PyStr(IF last.arg = PyBool(TRUE) THEN str_TRUE ELSE str_FALSE)
    /\ (last.op = "apply_parameters" /\ ~IsNone(last.arg[2]))
       => LET operation == last.arg[1]
              parameters == Val(last.arg[2])
          IN  \A p \in 1..Len(parameters), k \in 1..Len(operation) :
                  (/\ parameters[p][2].type = "bool"
                   /\ OnlyPlaceholderAt(operation, k, parameters[p][1]))
                  => /\ (\A q \in 1..Len(parameters) : IsScalar(parameters[q][2]))
                        => last.exc = NoExc
                     /\ last.exc = NoExc
                        => last.ret =
                               SubSeq(operation, 1, k - 1)
                               \o (IF parameters[p][2] = PyBool(TRUE)
                                   THEN str_TRUE ELSE str_FALSE)
                               \o SubSeq(operation, k + Len(Placeholder(parameters[p][1])),
                                         Len(operation))

\* apply_parameters("x = %(flag)s", {"flag": True}) returned "x = TRUE"
C18_Witness ==
    /\ last.op = "apply_parameters"
    /\ last.arg = <<str_x_eq \o Placeholder(str_flag),
                    Some(<< <<str_flag, PyBool(TRUE)>> >>)>>
    /\ last.exc = NoExc
    /\ last.ret = str_x_eq \o str_TRUE

\* The value is a str, a number or a bool, or a list or tuple of such values
RECURSIVE IsSupported(_)
IsSupported(value) ==
    IF value.type \in {"list", "tuple"}
    THEN \A i \in 1..Len(value.elems) : IsSupported(value.elems[i])
    ELSE value.type \in {"str", "int", "float", "bool"}

\* C19: escape of a list or tuple of supported values does not raise and
\* returns the escaped forms of the elements, as text, joined by ", ".
C19_SequenceJoinsEscapedElements ==
    (/\ last.op = "escape"
     /\ last.arg.type \in {"list", "tuple"}
     /\ IsSupported(last.arg))
    => /\ last.exc = NoExc
       /\ last.ret = PyStr(Join(<<",", " ">>,
                                [i \in 1..Len(last.arg.elems) |->
                                    StrOf(escape(last.arg.elems[i]).ret)]))

\* C20: apply_parameters(operation, None) returns the operation as it is and
\* does not raise, whatever % and %(name)s the operation holds.
C20_NoParametersNoChange ==
    (last.op = "apply_parameters" /\ IsNone(last.arg[2]))
    => /\ last.exc = NoExc
       /\ last.ret = last.arg[1]

\* apply_parameters("SHOW TABLES LIKE %", None), the call of the opendistro
\* cursor's get_valid_table_names, returned the operation
C20_Witness ==
    /\ last.op = "apply_parameters"
    /\ last.arg = <<str_SHOW_TABLES_LIKE, None>>
    /\ last.exc = NoExc
    /\ last.ret = str_SHOW_TABLES_LIKE

\* The number of single quotes among the first n characters
QuotesIn(chars, n) == Cardinality({i \in 1..n : chars[i] = "'"})

\* C21: escape renders the str "*" as it is, and every other str between two
\* single quotes with each single quote of the str written twice: every
\* character of the str stands, in order, after the opening quote, shifted
\* by the quotes before it, a quote being followed by a second one, and
\* nothing else stands between the two outer quotes.
C21_StringsQuotedAndDoubled ==
    (last.op = "escape" /\ last.arg.type = "str")
    => /\ last.exc = NoExc
       /\ last.ret.type = "str"
       /\ IF last.arg.chars = <<"*">> THEN last.ret.chars = <<"*">>
          ELSE LET s == last.arg.chars
                   r == last.ret.chars
               IN  /\ Len(r) = Len(s) + QuotesIn(s, Len(s)) + 2
                   /\ r[1] = "'"
                   /\ r[Len(r)] = "'"
                   /\ \A i \in 1..Len(s) :
                          /\ r[1 + i + QuotesIn(s, i - 1)] = s[i]
                          /\ s[i] = "'" => r[2 + i + QuotesIn(s, i - 1)] = "'"

\* escape("'a'") returned "'''a'''"
C21_Witness ==
    /\ last.op = "escape"
    /\ last.arg = PyStr(<<"'", "a", "'">>)
    /\ last.exc = NoExc
    /\ last.ret = PyStr(<<"'", "'", "'", "a", "'", "'", "'">>)

\* The str spells the type name in some mix of upper and lower case
SpelledAs(s, key) ==
    /\ Len(s) = Len(key)
    /\ \A i \in 1..Len(key) : s[i] = key[i] \/ s[i] = UpperChar(key[i])

str_interval_ == <<"i", "n", "t", "e", "r", "v", "a", "l", "_">>

\* The type names C22 lists for each value of the enum
NamesOfSTRING ==
    {str_text, str_keyword, <<"i", "p">>, <<"g", "e", "o", "_", "p", "o", "i", "n", "t">>}
    \cup {key \in TypeKeys : StartsWith(key, str_interval_)}
NamesOfNUMBER ==
    {<<"i", "n", "t", "e", "g", "e", "r">>, str_long, <<"s", "h", "o", "r", "t">>,
     <<"f", "l", "o", "a", "t">>, <<"d", "o", "u", "b", "l", "e">>,
     <<"h", "a", "l", "f", "_", "f", "l", "o", "a", "t">>,
     <<"s", "c", "a", "l", "e", "d", "_", "f", "l", "o", "a", "t">>,
     <<"b", "y", "t", "e", "s">>}
NamesOfBOOLEAN == {<<"b", "o", "o", "l", "e", "a", "n">>}
NamesOfDATETIME ==
    {<<"d", "a", "t", "e">>, <<"d", "a", "t", "e", "t", "i", "m", "e">>,
     <<"t", "i", "m", "e", "s", "t", "a", "m", "p">>}

\* get_type returned the value for the name, if the str spells it
TypedAs(names, type) ==
    \A key \in names :
        SpelledAs(last.arg, key) => last.exc = NoExc /\ last.ret = type

\* C22: get_type returns STRING for text, keyword, ip, geo_point and the
\* interval_ types, NUMBER for integer, long, short, float, double,
\* half_float, scaled_float and bytes, BOOLEAN for boolean and DATETIME for
\* date, datetime and timestamp, in whatever case the name is spelled.
C22_TypeTableAnyCase ==
    last.op = "get_type"
    => /\ TypedAs(NamesOfSTRING, Type_STRING)
       /\ TypedAs(NamesOfNUMBER, Type_NUMBER)
       /\ TypedAs(NamesOfBOOLEAN, Type_BOOLEAN)
       /\ TypedAs(NamesOfDATETIME, Type_DATETIME)

\* get_type("DaTe") returned DATETIME
C22_Witness ==
    /\ last.op = "get_type"
    /\ last.arg = <<"D", "a", "T", "e">>
    /\ last.exc = NoExc
    /\ last.ret = Type_DATETIME

\* The entry of a description is (name, type_code, None, None, None, None,
\* True) with a name and one of the four type codes
IsDescriptionEntry(entry) ==
    /\ Len(entry) = 7
    /\ ~IsNone(entry[1])
    /\ entry[2] \in {Type_STRING, Type_NUMBER, Type_BOOLEAN, Type_DATETIME}
    /\ \A k \in 3..6 : entry[k] = None
    /\ entry[7] = Some(TRUE)

\* C23: every entry of the description a cursor exposes after an execute, of
\* a query or of a catalog command, is (name, type_code, None, None, None,
\* None, True) with type_code one of STRING, NUMBER, BOOLEAN, DATETIME.
C23_DescriptionEntries ==
    \A i \in Cursors :
        \A k \in 1..Len(conn.cursors[i].description) :
            IsDescriptionEntry(conn.cursors[i].description[k])

\* The operation of the call, whatever its letter case, is the command
Executes(command) ==
    /\ last.op = "execute"
    /\ Len(last.arg) = 2
    /\ Lower(last.arg[1]) = command

\* The answers of the store to the call
Answers == last.arg[2]

\* The index statistics report the index with a document count of 0
ReportedEmpty(name) ==
    /\ Answers.indices.kind = "response"
    /\ \E k \in 1..Len(Answers.indices.response) :
           /\ Answers.indices.response[k].index = name
           /\ Answers.indices.response[k].docs_count # <<>>
           /\ \A d \in 1..Len(Answers.indices.response[k].docs_count) :
                  Answers.indices.response[k].docs_count[d] = "0"

\* The name of the table in a row of the listing: the first column of SHOW
\* TABLES (elastic), the third of SHOW TABLES LIKE % (opendistro)
TableOf(row) == IF conn.class = "opendistro" THEN row[3] ELSE row[1]

\* C24: the rows execute("SHOW VALID_TABLES") leaves, on the elastic and on
\* the opendistro cursor, hold no index that the index statistics report with
\* a document count of 0.
C24_ValidTablesNotEmpty ==
    (Executes(str_show_valid_tables) /\ last.exc = NoExc)
    => \A k \in 1..Len(Buffer(1)) : ~ReportedEmpty(TableOf(Buffer(1)[k]))

\* SHOW VALID_TABLES returned the table t2 where the statistics report t1
\* with no document and the listing holds both
C24_Witness ==
    /\ Executes(str_show_valid_tables)
    /\ last.exc = NoExc
    /\ ReportedEmpty(name_t1)
    /\ Len(Buffer(1)) = 1
    /\ TableOf(Buffer(1)[1]) = name_t2


\* A request of the call carried the text to the SQL endpoint
SentToSql(text) ==
    \E k \in 1..Len(last.requests) :
        /\ last.requests[k].endpoint = "sql"
        /\ last.requests[k].body = text

\* The catalog commands, as the dialects spell them
CatalogCommands ==
    {op_SHOW_VALID_TABLES, op_SHOW_VALID_VIEWS, op_SHOW_VALID_COLUMNS,
     op_SHOW_ARRAY_COLUMNS, op_SELECT_1}

\* The commands a cursor of the class answers itself: the two listings in any
\* letter case on both, SHOW ARRAY_COLUMNS FROM t as spelled on elastic, SELECT 1
\* in any letter case and SHOW VALID_COLUMNS FROM t as spelled on opendistro
OwnCommand(class, operation) ==
    \/ Lower(operation) = Lower(op_SHOW_VALID_TABLES)
    \/ Lower(operation) = Lower(op_SHOW_VALID_VIEWS)
    \/ class = "elastic" /\ operation = op_SHOW_ARRAY_COLUMNS
    \/ class = "opendistro" /\ Lower(operation) = Lower(op_SELECT_1)
    \/ class = "opendistro" /\ operation = op_SHOW_VALID_COLUMNS

\* C25 as stated: on the elastic and on the opendistro cursor, the text of
\* each of SHOW VALID_TABLES, SHOW VALID_VIEWS, SHOW VALID_COLUMNS FROM t, SHOW
\* ARRAY_COLUMNS FROM t and SELECT 1 is never sent to the SQL endpoint.
C25_EveryCommandHasHandler ==
    (last.op = "execute" /\ Len(last.arg) = 2 /\ last.arg[1] \in CatalogCommands)
    => ~SentToSql(last.arg[1])

\* C25, amended: a cursor never sends to the SQL endpoint the text of a command
\* of its own class (SHOW VALID_TABLES and SHOW VALID_VIEWS on both, SHOW
\* ARRAY_COLUMNS FROM t on elastic, SELECT 1 and SHOW VALID_COLUMNS FROM t on
\* opendistro); the commands of the other class are sent to the SQL endpoint as
\* they are, in one request.
C25_OwnCommandsHaveHandler ==
    (last.op = "execute" /\ Len(last.arg) = 2)
    => /\ OwnCommand(conn.class, last.arg[1]) => ~SentToSql(last.arg[1])
       /\ (last.arg[1] \in CatalogCommands /\ ~OwnCommand(conn.class, last.arg[1]))
          => last.requests = <<Request("sql", last.arg[1])>>

\* SHOW ARRAY_COLUMNS FROM t was answered on an elastic cursor by one search
C25_Witness ==
    /\ last.op = "execute"
    /\ Len(last.arg) = 2
    /\ last.arg[1] = op_SHOW_ARRAY_COLUMNS
    /\ conn.class = "elastic"
    /\ last.exc = NoExc
    /\ last.requests = <<Request("search", <<"t">>)>>


\* C26: on the opendistro cursor execute("SELECT 1"), in any letter case,
\* sends one ping and nothing to the SQL endpoint; when the ping answers true it
\* leaves the rows [(1,)] and the description of one NUMBER column named "1";
\* when the ping answers false or raises a connection error it raises
\* DatabaseError.
C26_SelectOnePings ==
    (Executes(Lower(op_SELECT_1)) /\ conn.class = "opendistro")
    => /\ last.requests = <<Request("ping", <<>>)>>
       /\ Answers.ping = Responded(TRUE)
          => /\ last.exc = NoExc
             /\ Buffer(1) = << <<1>> >>
             /\ conn.cursors[1].description =
                    << <<Some(<<"1">>), Type_NUMBER, None, None, None, None,
                         Some(TRUE)>> >>
       /\ Answers.ping \in {Responded(FALSE), Raised("ConnectionError")}
          => last.exc = "DatabaseError"

\* select 1, in lower case, was answered by a ping that failed, on a cursor
\* that keeps the rows of the query before
C26_Witness ==
    /\ Executes(Lower(op_SELECT_1))
    /\ last.arg[1] # op_SELECT_1
    /\ conn.class = "opendistro"
    /\ Answers.ping = Responded(FALSE)
    /\ last.exc = "DatabaseError"
    /\ hist[1].executed


\* The names from the root to a field, joined by "."
Dotted(parent, name) == IF parent = <<>> THEN name ELSE parent \o <<".">> \o name

\* The fields of a mapping with their paths, each before its properties and
\* before the fields that follow it
RECURSIVE FieldsOf(_, _)
FieldsOf(mapping, parent) ==
    IF mapping = <<>> THEN <<>>
    ELSE LET path == Dotted(parent, Head(mapping)[1])
             metadata == Head(mapping)[2]
         IN  << [path |-> path, metadata |-> metadata] >>
             \o (IF metadata.properties # None
                 THEN FieldsOf(Val(metadata.properties), path)
                 ELSE <<>>)
             \o FieldsOf(Tail(mapping), parent)

HasProperties(field) == field.metadata.properties # None

\* (path, type) of the fields without properties, in the order of FieldsOf
LeafEntries(mapping) ==
    LET leaves == SelectSeq(FieldsOf(mapping, <<>>), LAMBDA field : ~HasProperties(field))
    IN  [k \in 1..Len(leaves) |-> <<leaves[k].path, Val(leaves[k].metadata.type)>>]

\* (path.sub, subtype) of sub-field k of a field that declares multi-fields
SubEntry(field, k) ==
    <<field.path \o <<".">> \o Val(field.metadata.fields)[k][1],
      Val(Val(field.metadata.fields)[k][2].type)>>

\* The entries of the multi-fields the mapping declares
SubEntries(mapping) ==
    LET fields == FieldsOf(mapping, <<>>)
    IN  UNION {{SubEntry(fields[i], k) : k \in 1..Len(Val(fields[i].metadata.fields))} :
                  i \in {i \in 1..Len(fields) : fields[i].metadata.fields # None}}

\* {a: {properties: {b: {type: keyword}}}}
MappingOfObject ==
    << <<<<"a">>,
         Metadata(None,
                  Some(<< <<<<"b">>, Metadata(Some(str_keyword), None, None)>> >>),
                  None)>> >>

\* {f: {type: text, fields: {keyword: {type: keyword}}}}
MappingOfText ==
    << <<<<"f">>,
         Metadata(Some(str_text), None,
                  Some(<< <<str_keyword, Metadata(Some(str_keyword), None, None)>> >>))>> >>

\* C27: the entries _traverse_mapping returns, those of multi-fields aside,
\* are one (path, type) per field without properties, path being the names from
\* the root joined by ".", in depth-first order of the mapping; no entry has the
\* path of a field with properties; {a: {properties: {b: {type: keyword}}}}
\* gives [("a.b", "keyword")].
C27_OneEntryPerLeaf ==
    last.op = "_traverse_mapping"
    => /\ SelectSeq(last.ret, LAMBDA entry : entry \notin SubEntries(last.arg))
              = LeafEntries(last.arg)
       /\ \A k \in 1..Len(last.ret) :
              \A i \in 1..Len(FieldsOf(last.arg, <<>>)) :
                  HasProperties(FieldsOf(last.arg, <<>>)[i])
                  => last.ret[k][1] # FieldsOf(last.arg, <<>>)[i].path
       /\ last.arg = MappingOfObject
          => last.ret = << <<<<"a", ".", "b">>, str_keyword>> >>

\* A mapping of an object in an object was traversed: a.b.c is the one entry
C27_Witness ==
    /\ last.op = "_traverse_mapping"
    /\ last.ret = << <<<<"a", ".", "b", ".", "c">>, str_keyword>> >>

\* C28: without v2, for every field that declares multi-fields
\* _traverse_mapping returns the (path, type) of the field and, right after
\* it and in their order, one (path.sub, subtype) per sub-field; a text field f
\* with the sub-field keyword gives ("f", "text"), ("f.keyword", "keyword").
C28_MultiFieldsAdded ==
    (last.op = "_traverse_mapping" /\ ~conn.v2)
    => /\ \A i \in 1..Len(FieldsOf(last.arg, <<>>)) :
              LET field == FieldsOf(last.arg, <<>>)[i]
              IN  field.metadata.fields # None
                  => \E at \in 1..Len(last.ret) :
                         /\ last.ret[at] = <<field.path, Val(field.metadata.type)>>
                         /\ at + Len(Val(field.metadata.fields)) <= Len(last.ret)
                         /\ \A k \in 1..Len(Val(field.metadata.fields)) :
                                last.ret[at + k] = SubEntry(field, k)
       /\ Len(last.ret) = Len(LeafEntries(last.arg)) + Cardinality(SubEntries(last.arg))
       /\ last.arg = MappingOfText
          => last.ret = << <<<<"f">>, str_text>>,
                           <<<<"f", ".">> \o str_keyword, str_keyword>> >>

\* Without v2, a text field with the sub-fields raw and keyword was traversed
C28_Witness ==
    /\ last.op = "_traverse_mapping"
    /\ ~conn.v2
    /\ last.ret = << <<<<"f">>, str_text>>,
                     <<<<"f", ".">> \o str_raw, str_keyword>>,
                     <<<<"f", ".">> \o str_keyword, str_keyword>> >>

\* The path of the entry ends in ".keyword"
IsKeywordPath(entry) == EndsWith(entry[1], <<".">> \o str_keyword)

\* C29: the list _traverse_mapping returns with v2 is the list it returns
\* without v2 for the same mapping, less the entries whose path ends in
\* ".keyword", in the same order.
C29_V2DropsKeywordPaths ==
    (last.op = "_traverse_mapping" /\ conn.v2)
    => last.ret = SelectSeq(_traverse_mapping(NewCursor(conn.class, FALSE), last.arg, None),
                            LAMBDA entry : ~IsKeywordPath(entry))


\* The document SHOW ARRAY_COLUMNS samples: the first hit, or none when the
\* index has no documents
Sampled ==
    IF Val(Answers.search.response.total) = 0 THEN <<>>
    ELSE Answers.search.response.hits[1]

IsList(value) == value.kind = "list"
HoldsObjects(value) == IsList(value) /\ value.elems # <<>> /\ value.elems[1].kind = "dict"

\* The rows the claim gives for the field c with this value
RowsOf(c, value) ==
    IF HoldsObjects(value)
    THEN UNION {{<<c \o <<".">> \o value.elems[1].keys[k]>>,
                 <<c \o <<".">> \o value.elems[1].keys[k] \o <<".">> \o str_keyword>>} :
                    k \in 1..Len(value.elems[1].keys)}
    ELSE IF IsList(value) THEN {<<c>>, <<c \o <<".">> \o str_keyword>>}
    ELSE {}

\* C30: on the elastic cursor the rows of execute("SHOW ARRAY_COLUMNS FROM t")
\* are, for the sampled document, (c,) and (c.keyword,) for every field c that
\* holds a list of non-objects or an empty list, (c.k,) and (c.k.keyword,) for
\* every key k of the first element of a list of objects, each once and nothing
\* else; there is no row when the document has no list or the index no
\* document; {tags: ["a", "b"]} gives [("tags",), ("tags.keyword",)].
C30_ArrayColumnsRows ==
    (/\ last.op = "execute"
     /\ Len(last.arg) = 2
     /\ last.arg[1] = op_SHOW_ARRAY_COLUMNS
     /\ conn.class = "elastic"
     /\ last.exc = NoExc)
    => /\ {Buffer(1)[k] : k \in 1..Len(Buffer(1))}
              = UNION {RowsOf(Sampled[i][1], Sampled[i][2]) : i \in 1..Len(Sampled)}
       /\ \A j \in 1..Len(Buffer(1)) : \A k \in 1..Len(Buffer(1)) :
              Buffer(1)[j] = Buffer(1)[k] => j = k
       /\ (\A i \in 1..Len(Sampled) : ~IsList(Sampled[i][2])) => Buffer(1) = <<>>
       /\ Sampled = << <<str_tags, ListOf(<<Element, Element>>)>> >>
          => Buffer(1) = << <<str_tags>>, <<str_tags \o <<".">> \o str_keyword>> >>

\* SHOW ARRAY_COLUMNS sampled a document with a list of objects of two keys, a
\* dict and a list of one object without keys
C30_Witness ==
    /\ last.op = "execute"
    /\ Len(last.arg) = 2
    /\ last.arg[1] = op_SHOW_ARRAY_COLUMNS
    /\ conn.class = "elastic"
    /\ last.exc = NoExc
    /\ Len(Sampled) = 3
    /\ Len(Buffer(1)) = 4


\* The rows of SHOW ARRAY_COLUMNS for the sampled document, as C30 gives them
ArrayRows == UNION {RowsOf(Sampled[i][1], Sampled[i][2]) : i \in 1..Len(Sampled)}

\* The rows the SQL endpoint answered
Listing == Val(IF Answers.sql.response.rows # None THEN Answers.sql.response.rows
               ELSE Answers.sql.response.datarows)

\* A row <<column, type, mapping>> of SHOW COLUMNS that get_columns is to return
IsFlatColumn(row) ==
    /\ row[3] \notin {str_object, str_nested}
    /\ <<row[1]>> \notin ArrayRows

\* C31: get_columns of the elastic dialect returns the columns of SHOW COLUMNS
\* whose mapping is not object or nested and whose name is no row of SHOW
\* ARRAY_COLUMNS, in the order of SHOW COLUMNS and no other; it returns no
\* array-backed column, and it does not fail when both commands are answered
\* and the table has no array column.
C31_ColumnsWithoutArrays ==
    last.op = "get_columns"
    => /\ last.exc = NoExc
          => /\ [k \in 1..Len(last.ret) |-> last.ret[k].name]
                    = [k \in 1..Len(SelectSeq(Listing, IsFlatColumn)) |->
                          SelectSeq(Listing, IsFlatColumn)[k][1]]
             /\ \A k \in 1..Len(last.ret) : <<last.ret[k].name>> \notin ArrayRows
       /\ (/\ Answers.sql.kind = "response"
           /\ Answers.search.kind = "response"
           /\ Answers.search.response.total # None
           /\ ArrayRows = {})
          => last.exc = NoExc

\* get_columns returned n alone of the seven columns listed, the others being
\* arrays of the sampled document, a nested field and an object
C31_Witness ==
    /\ last.op = "get_columns"
    /\ last.exc = NoExc
    /\ Len(Listing) = 7
    /\ Listing[1][1] = <<"a">>
    /\ ArrayRows # {}
    /\ Len(last.ret) = 1
    /\ last.ret[1].name = <<"n">>


\* The call posted to the SQL endpoint
AskedSql == \E k \in 1..Len(last.requests) : last.requests[k].endpoint = "sql"

\* The response of the SQL endpoint lacks the field of the columns: "columns"
\* for the elastic cursor, "schema" for the opendistro cursor
LacksColumns(response) ==
    IF conn.class = "opendistro" THEN response.schema = None ELSE response.columns = None

\* C32: an execute that posts to the SQL endpoint raises OperationalError when
\* the store cannot be reached, ProgrammingError when the store rejects the
\* query or answers with an error object, and DataError when the response holds
\* no error and no columns (elastic) or schema (opendistro).
C32_FailuresByKind ==
    (last.op = "execute" /\ Len(last.arg) = 2 /\ AskedSql)
    => /\ Answers.sql.kind = "ConnectionError" => last.exc = "OperationalError"
       /\ Answers.sql.kind = "RequestError" => last.exc = "ProgrammingError"
       /\ (Answers.sql.kind = "response" /\ Answers.sql.response.error)
          => last.exc = "ProgrammingError"
       /\ (/\ Answers.sql.kind = "response"
           /\ ~Answers.sql.response.error
           /\ LacksColumns(Answers.sql.response))
          => last.exc = "DataError"

\* A query on an opendistro cursor was answered by an error object
C32_Witness ==
    /\ last.op = "execute"
    /\ Len(last.arg) = 2
    /\ last.arg[1] = op_select
    /\ conn.class = "opendistro"
    /\ AskedSql
    /\ Answers.sql.kind = "response"
    /\ Answers.sql.response.error
    /\ last.exc = "ProgrammingError"


\* sub occurs in s
Contains(s, sub) ==
    \E at \in 0..(Len(s) - Len(sub)) : SubSeq(s, at + 1, at + Len(sub)) = sub

\* The store supplied a reason with its answer: it rejected the query, or
\* answered with an error object
ReasonSupplied ==
    \/ Answers.sql.kind = "RequestError"
    \/ Answers.sql.kind = "response" /\ Answers.sql.response.error

\* C33: the message of every exception execute raises for a query that
\* failed holds the SQL text sent to the store and, when the store supplied a
\* reason, the reason.
C33_ErrorsCarrySqlText ==
    (last.op = "query" /\ last.exc # NoExc)
    => /\ Contains(Val(last.ret), last.requests[1].body)
       /\ ReasonSupplied => Contains(Val(last.ret), upstream_reason)


\* C34: a call on a closed cursor or on a closed connection, and a fetch on a
\* cursor on which execute was never called, raise an InterfaceError;
\* executemany on an open cursor raises NotSupportedError.
C34_InterfaceErrors ==
    [][/\ \A i \in Cursors :
            (/\ last'.cur = i
             /\ last'.op \in CursorCalls \cup {"close"}
             /\ conn.cursors[i].closed)
            => IsInstance(last'.exc, "InterfaceError")
       /\ (last'.op \in ConnectionCalls /\ conn.closed)
          => IsInstance(last'.exc, "InterfaceError")
       /\ \A i \in Cursors :
            (/\ last'.cur = i
             /\ last'.op \in FetchingCalls
             /\ hist[i].made = "Connection.cursor"
             /\ ~hist[i].executed)
            => IsInstance(last'.exc, "InterfaceError")
       /\ \A i \in Cursors :
            (last'.cur = i /\ last'.op = "executemany" /\ ~conn.cursors[i].closed)
            => last'.exc = "NotSupportedError"]_vars


\* The operation is a key of the table of commands of the class, once in
\* lower case
InTable(class, operation) ==
    \/ Lower(operation) \in {str_show_valid_tables, str_show_valid_views}
    \/ class = "opendistro" /\ Lower(operation) = str_select_1

\* The prefix of the command with a table name that the class matches
PrefixOf(class) ==
    IF class = "opendistro" THEN str_SHOW_VALID_COLUMNS_FROM
    ELSE str_SHOW_ARRAY_COLUMNS_FROM

\* The endpoints a call asked, in order
Endpoints == [k \in 1..Len(last.requests) |-> last.requests[k].endpoint]

\* C35: execute(operation, parameters) answers an operation of the table of
\* commands by the method of the table; any other operation that matches the
\* command with a table name by its handler, given the text after the prefix
\* as it was passed; and sends to the SQL endpoint only an operation that
\* matched neither, with its parameters bound.  No operation is handled at two
\* steps, and the parameters are bound at the last step only.
C35_DispatchOrder ==
    (last.op = "execute" /\ Len(last.arg) = 3)
    => LET operation == last.arg[1]
           parameters == last.arg[2]
           table == InTable(conn.class, operation)
           regex == StartsWith(operation, PrefixOf(conn.class))
           bound == apply_parameters(operation, parameters)
       IN  /\ table
              => /\ \A k \in 1..Len(Endpoints) :
                        Endpoints[k] \notin {"search", "indices.get_mapping"}
                 /\ \A k \in 1..Len(last.requests) :
                        last.requests[k].endpoint = "sql"
                        => last.requests[k].body \in {str_SHOW_TABLES, str_SHOW_TABLES_LIKE}
                 /\ last.exc \notin {"KeyError", "ValueError", "TypeError"}
           /\ (~table /\ regex)
              => last.requests =
                     <<Request(IF conn.class = "opendistro" THEN "indices.get_mapping"
                               ELSE "search",
                               SubSeq(operation, Len(PrefixOf(conn.class)) + 1,
                                      Len(operation)))>>
           /\ (~table /\ ~regex)
              => IF bound.exc # NoExc
                 THEN last.exc = bound.exc /\ last.requests = <<>>
                 ELSE last.requests =
                          <<Request("sql",
                                    sanitize_query(NewCursor(conn.class, conn.v2),
                                                   bound.ret))>>
           /\ AskedSql /\ last.requests[1].endpoint = "sql" /\ Len(last.requests) = 1
              /\ last.requests[1].body \notin {str_SHOW_TABLES, str_SHOW_TABLES_LIKE}
              => ~table /\ ~regex

\* SHOW ARRAY_COLUMNS FROM %(flag)s with a parameter flag searched the index
\* named %(flag)s on an elastic cursor: the placeholder was not bound
C35_Witness ==
    /\ last.op = "execute"
    /\ Len(last.arg) = 3
    /\ last.arg[1] = str_SHOW_ARRAY_COLUMNS_FROM \o Placeholder(str_flag)
    /\ last.arg[2] = Some(<< <<str_flag, PyBool(TRUE)>> >>)
    /\ conn.class = "elastic"
    /\ last.requests = <<Request("search", Placeholder(str_flag))>>


\* C36: execute routes every letter-case spelling of a catalog command as it
\* routes the upper-case spelling: a spelling of SHOW VALID_TABLES, of SHOW
\* VALID_VIEWS and, on opendistro, of SELECT 1 is never sent to the SQL endpoint,
\* and a spelling of SHOW ARRAY_COLUMNS FROM t on elastic, of SHOW VALID_COLUMNS
\* FROM t on opendistro, is answered by the one request of its handler for the
\* table named.
C36_AnyLetterCase ==
    (last.op = "execute" /\ Len(last.arg) = 2)
    => LET operation == last.arg[1]
           prefix == PrefixOf(conn.class)
       IN  /\ InTable(conn.class, operation) => ~SentToSql(operation)
           /\ StartsWith(Lower(operation), Lower(prefix))
              => last.requests =
                     <<Request(IF conn.class = "opendistro" THEN "indices.get_mapping"
                               ELSE "search",
                               SubSeq(operation, Len(prefix) + 1, Len(operation)))>>


\* The rows of the listing the SQL endpoint answered to SHOW TABLES
Listed == Val(Answers.sql.response.rows)

\* The type SHOW VALID_TABLES asks of a row: TABLE from release 7.10.0 on,
\* BASE TABLE before
TableType ==
    LET number == Answers.info.response
    IN  IF number[1] > 7 \/ (number[1] = 7 /\ number[2] >= 10)
        THEN str_TABLE ELSE str_BASE_TABLE

\* The rows of the listing of the type given whose index is not reported
\* empty, in the order of the listing
RECURSIVE OfType(_, _)
OfType(rows, type) ==
    IF rows = <<>> THEN <<>>
    ELSE (IF Head(rows)[2] = type /\ ~ReportedEmpty(Head(rows)[1])
          THEN <<Head(rows)>> ELSE <<>>) \o OfType(Tail(rows), type)

\* C37: on the elastic cursor SHOW VALID_TABLES leaves the rows of SHOW TABLES
\* of type TABLE when the release of the cluster is 7.10.0 or later and of type
\* BASE TABLE otherwise, SHOW VALID_VIEWS those of type VIEW, each without the
\* rows whose index is reported empty and in the order of the listing; no row
\* of the one is a row of the other.
C37_TablesAndViewsByType ==
    (last.op = "execute" /\ Len(last.arg) = 2 /\ conn.class = "elastic"
        /\ last.exc = NoExc)
    => /\ Executes(str_show_valid_tables)
          => /\ Buffer(1) = OfType(Listed, TableType)
             /\ \A k \in 1..Len(Buffer(1)) : Buffer(1)[k][2] # str_VIEW
       /\ Executes(str_show_valid_views)
          => /\ Buffer(1) = OfType(Listed, str_VIEW)
             /\ \A k \in 1..Len(Buffer(1)) :
                    Buffer(1)[k][2] \notin {str_TABLE, str_BASE_TABLE}

\* SHOW VALID_TABLES on a cluster of release 8.0.0 left the row of the table
\* t1 alone, of a listing of t1 (TABLE), t2 (BASE TABLE) and v1 (VIEW)
C37_Witness ==
    /\ Executes(str_show_valid_tables)
    /\ conn.class = "elastic"
    /\ last.exc = NoExc
    /\ Answers.info.response = <<8, 0, 0>>
    /\ Len(Listed) = 3
    /\ Buffer(1) = << <<name_t1, str_TABLE>> >>


\* The names, in order, that do not begin with "."
RECURSIVE NotHidden(_)
NotHidden(names) ==
    IF names = <<>> THEN <<>>
    ELSE (IF Head(Head(names)) = "." THEN <<>> ELSE <<Head(names)>>)
         \o NotHidden(Tail(names))

\* The names of the rows a new cursor holds after it executed the command: the
\* column name on elastic, TABLE_NAME and VIEW_NAME on opendistro
Yielded(command, attr) ==
    LET result == execute(NewCursor(conn.class, conn.v2), command, Answers)
    IN  [k \in 1..Len(Val(result.self._results)) |->
            RowAttr(result.self.description, Val(result.self._results)[k], attr)]

\* C38: get_table_names and get_view_names of both dialects, when they return,
\* return no name that begins with "." and return every other name of the rows
\* of SHOW VALID_TABLES, of SHOW VALID_VIEWS, in the order of the rows.
C38_HiddenNamesLeftOut ==
    (last.op \in {"get_table_names", "get_view_names"} /\ last.exc = NoExc)
    => /\ \A k \in 1..Len(last.ret) : last.ret[k][1] # "."
       /\ last.op = "get_table_names"
          => last.ret = NotHidden(Yielded(op_SHOW_VALID_TABLES,
                                          IF conn.class = "opendistro"
                                          THEN str_TABLE_NAME ELSE str_name))
       /\ last.op = "get_view_names"
          => last.ret = NotHidden(Yielded(op_SHOW_VALID_VIEWS,
                                          IF conn.class = "opendistro"
                                          THEN str_VIEW_NAME ELSE str_name))

\* get_view_names of the opendistro dialect returned v1 and t2 of the aliases
\* v1, .a and t2
C38_Witness ==
    /\ last.op = "get_view_names"
    /\ conn.class = "opendistro"
    /\ last.exc = NoExc
    /\ Len(Answers.aliases.response) = 3
    /\ last.ret = <<name_v1, name_t2>>


C40_LegacyBinderAgrees ==
    /\ (last.op = "db.escape" /\ IsSupported(last.arg))
       => /\ last.exc = escape(last.arg).exc
          /\ last.ret = escape(last.arg).ret
          /\ last.arg.type = "bool"
             => last.ret = PyStr(IF last.arg = PyBool(TRUE) THEN str_TRUE ELSE str_FALSE)
    /\ (/\ last.op = "db.apply_parameters"
        /\ ~IsNone(last.arg[2])
        /\ \A p \in 1..Len(Val(last.arg[2])) : IsSupported(Val(last.arg[2])[p][2]))
       => /\ last.exc = apply_parameters(last.arg[1], last.arg[2]).exc
          /\ last.ret = apply_parameters(last.arg[1], last.arg[2]).ret

====
